---- MODULE Spec2Model ----
(***************************************************************************)
(* A model of the pipeline orchestrator (scripts/execute_pipeline.py) and  *)
(* of the job client's wait_for_completion (scripts/comfyui_client.py).    *)
(*                                                                         *)
(* A JSON object is a record with a field "keys", the set of the keys the  *)
(* object holds, and one field per key the code reads; the field of a key  *)
(* that is absent holds a fixed filler.  A key whose value the code only   *)
(* tests for presence or passes on (prompt, output, output_video, ...) is  *)
(* a member of "keys" and nothing more.                                    *)
(***************************************************************************)
EXTENDS Integers, Sequences, FiniteSets, TLC

VARIABLES
    disk,              \* the persisted pipeline.json
    pipeline,          \* PipelineExecutor.pipeline, the in-memory document
    pipeline_version,  \* PipelineExecutor.pipeline_version
    pc,                \* position of the orchestrator process
    out,               \* what the last command produced (defects, statuses, exit code)
    files,             \* the artifacts that exist in the output directory
    reg,               \* the locals of the running command
    invoked,           \* the external commands this process has run, in order
    disk0,             \* the persisted document when this process started
    last,              \* the stage run that ended last, and whether it left every
                       \* entity of its stage generated or approved
    runs,              \* the number of orchestrator processes started so far
    wait,              \* the locals of wait_for_completion and where it stands
    backend,           \* the job at the compute backend: queued or not, its history record
    merger             \* a call of VideoMerger.merge_all_scenes: its arguments, locals and calls

vars == <<disk, pipeline, pipeline_version, pc, out, files, reg, invoked, disk0, last, runs,
          wait, backend, merger>>
procvars == <<disk, pipeline, pipeline_version, pc, out, files, reg, invoked, disk0, last, runs>>
waitvars == <<wait, backend>>
mergevars == <<merger>>
runvars == <<files, reg, invoked, disk0, last, runs>>

\* ------------------------------------------------------------------ bounds
MaxScenes == 2
MaxSegs == 3
MaxRuns == 2     \* orchestrator processes in one behaviour
MaxConfigs == 3  \* scene configs given to merge_all_scenes
WaitTimeout == 10  \* the timeout given to wait_for_completion, in half seconds

\* ------------------------------------------------------------ JSON objects
Status == {"pending", "in_progress", "generated", "approved", "failed"}

\* dict.get(k, default)
Get(d, k, default) == IF k \in d.keys THEN d[k] ELSE default

\* a keyframe, first_keyframe, segment, video, asset or final_video object
Leaf(ks, id, st) ==
    [keys |-> ks, id |-> id, status |-> st, type |-> "", background |-> "",
     characters |-> <<>>, start_keyframe |-> "", end_keyframe |-> ""]

NoLeaf == Leaf({}, "", "")

\* transition_from_previous: a mapping with a type, or a bare name
NoTransition == [isdict |-> FALSE, keys |-> {}, type |-> ""]

\* a scene object (v2 and v3)
SceneObj(ks, id, st, fk, tr, segs) ==
    [keys |-> ks, id |-> id, status |-> st, start_keyframe |-> "",
     first_keyframe |-> fk, transition_from_previous |-> tr, segments |-> segs]

\* the assets object; a section (a mapping from id to asset, in insertion order)
\* is the sequence of its assets, each holding its id
NoAssets == [keys |-> {}, characters |-> <<>>, backgrounds |-> <<>>, styles |-> <<>>]

\* the document
Doc(ks, version, scenes, fk, fv) ==
    [keys |-> ks, version |-> version, scenes |-> scenes, first_keyframe |-> fk,
     keyframes |-> <<>>, videos |-> <<>>, assets |-> NoAssets, final_video |-> fv]

EmptyDoc == Doc({}, "", <<>>, NoLeaf, NoLeaf)

SeqsUpTo(S, n) == UNION {[1..k -> S] : k \in 0..n}

RECURSIVE Flatten(_)
Flatten(ss) == IF ss = <<>> THEN <<>> ELSE Head(ss) \o Flatten(Tail(ss))

Opt(c, e) == IF c THEN <<e>> ELSE <<>>

IdxStr(i) == <<"0", "1", "2", "3", "4", "5">>[i + 1]

\* ------------------------------------------------------- _detect_version
_detect_version_ignores_field(p) ==
    LET scenes == Get(p, "scenes", <<>>)
    IN  IF \E i \in DOMAIN scenes : "segments" \in scenes[i].keys THEN "3.0"
        ELSE IF "first_keyframe" \in p.keys THEN "2.0"
        ELSE "1.0"

_detect_version_field_wins(p) ==
    LET scenes == Get(p, "scenes", <<>>)
    IN  IF "version" \in p.keys THEN p.version
        ELSE IF \E i \in DOMAIN scenes : "segments" \in scenes[i].keys THEN "3.0"
        ELSE IF "first_keyframe" \in p.keys THEN "2.0"
        ELSE "1.0"

_detect_version(p) ==
    LET version == Get(p, "version", "1.0")
        scenes == Get(p, "scenes", <<>>)
    IN  IF version = "3.0" \/ \E i \in DOMAIN scenes : "segments" \in scenes[i].keys
        THEN "3.0"
        ELSE IF version = "2.0" \/ "first_keyframe" \in p.keys
        THEN "2.0"
        ELSE "1.0"

\* ------------------------------------------------- _compute_scene_status
_compute_scene_status_in_progress_first(scene) ==
    LET segments == Get(scene, "segments", <<>>)
        statuses == [i \in DOMAIN segments |-> Get(segments[i], "status", "pending")]
    IN  IF segments = <<>> THEN Get(scene, "status", "pending")
        ELSE IF \A i \in DOMAIN statuses : statuses[i] = "approved" THEN "approved"
        ELSE IF \A i \in DOMAIN statuses : statuses[i] \in {"generated", "approved"}
        THEN "generated"
        ELSE IF \E i \in DOMAIN statuses : statuses[i] = "in_progress" THEN "in_progress"
        ELSE IF \E i \in DOMAIN statuses : statuses[i] = "failed" THEN "failed"
        ELSE "pending"

_compute_scene_status_any_generated(scene) ==
    LET segments == Get(scene, "segments", <<>>)
        statuses == [i \in DOMAIN segments |-> Get(segments[i], "status", "pending")]
    IN  IF segments = <<>> THEN Get(scene, "status", "pending")
        ELSE IF \A i \in DOMAIN statuses : statuses[i] = "approved" THEN "approved"
        ELSE IF \E i \in DOMAIN statuses : statuses[i] \in {"generated", "approved"}
        THEN "generated"
        ELSE IF \E i \in DOMAIN statuses : statuses[i] = "failed" THEN "failed"
        ELSE IF \E i \in DOMAIN statuses : statuses[i] = "in_progress" THEN "in_progress"
        ELSE "pending"

_compute_scene_status(scene) ==
    LET segments == Get(scene, "segments", <<>>)
        statuses == [i \in DOMAIN segments |-> Get(segments[i], "status", "pending")]
    IN  IF segments = <<>> THEN Get(scene, "status", "pending")
        ELSE IF \A i \in DOMAIN statuses : statuses[i] = "approved" THEN "approved"
        ELSE IF \A i \in DOMAIN statuses : statuses[i] \in {"generated", "approved"}
        THEN "generated"
        ELSE IF \E i \in DOMAIN statuses : statuses[i] = "failed" THEN "failed"
        ELSE IF \E i \in DOMAIN statuses : statuses[i] = "in_progress" THEN "in_progress"
        ELSE "pending"

\* ---------------------------------------------------------------- validate
\* one defect of the list validate builds: the message with its scene label and
\* its segment label or the name it quotes
Defect(msg, scene, item) == [msg |-> msg, scene |-> scene, item |-> item]

AssetIds(p, section) ==
    LET items == Get(Get(p, "assets", NoAssets), section, <<>>)
    IN  {items[k].id : k \in DOMAIN items}

\* the asset references of a keyframe object (background, characters)
RefDefects(p, kf, label) ==
    Opt(Get(kf, "background", "") # ""
            /\ Get(kf, "background", "") \notin AssetIds(p, "backgrounds"),
        Defect("background not found", label, Get(kf, "background", "")))
    \o Flatten([c \in DOMAIN Get(kf, "characters", <<>>) |->
            Opt(kf.characters[c] \notin AssetIds(p, "characters"),
                Defect("character not found", label, kf.characters[c]))])

_validate_keyframe_first(p) ==
    LET keyframes == Get(p, "keyframes", <<>>)
        videos == Get(p, "videos", <<>>)
        keyframe_ids == {keyframes[k].id : k \in DOMAIN keyframes}
    IN  Flatten([k \in DOMAIN keyframes |-> RefDefects(p, keyframes[k], keyframes[k].id)])
        \o Flatten([v \in DOMAIN videos |->
              Opt(Get(videos[v], "start_keyframe", "") \notin keyframe_ids,
                  Defect("start_keyframe not found", videos[v].id,
                         Get(videos[v], "start_keyframe", "")))
              \o Opt(Get(videos[v], "end_keyframe", "") # ""
                        /\ videos[v].end_keyframe \notin keyframe_ids,
                     Defect("end_keyframe not found", videos[v].id,
                            videos[v].end_keyframe))])

\* the keyframe ids available to scene i (0-based) of a video-first document
RECURSIVE valid_keyframe_ids(_, _)
valid_keyframe_ids(p, i) ==
    LET scenes == Get(p, "scenes", <<>>)
        first_kf == Get(p, "first_keyframe", NoLeaf)
    IN  IF i = 0
        THEN IF first_kf.keys # {} /\ Get(first_kf, "id", "") # ""
             THEN {first_kf.id} ELSE {}
        ELSE valid_keyframe_ids(p, i - 1)
             \cup IF "output_keyframe" \in scenes[i].keys
                     /\ Get(scenes[i + 1], "start_keyframe", "") # ""
                  THEN {scenes[i + 1].start_keyframe} ELSE {}

_validate_video_first(p) ==
    LET first_kf == Get(p, "first_keyframe", NoLeaf)
        scenes == Get(p, "scenes", <<>>)
        SceneDefects(i) ==
            LET scene == scenes[i + 1]
                scene_id == Get(scene, "id", "scene-" \o IdxStr(i))
                start_kf == Get(scene, "start_keyframe", "")
            IN  Opt("motion_prompt" \notin scene.keys,
                    Defect("missing 'motion_prompt'", scene_id, ""))
                \o Opt("output_video" \notin scene.keys,
                       Defect("missing 'output_video'", scene_id, ""))
                \o (IF start_kf = ""
                    THEN <<Defect("missing 'start_keyframe'", scene_id, "")>>
                    ELSE Opt(start_kf \notin valid_keyframe_ids(p, i),
                             Defect("start_keyframe not available", scene_id, start_kf)))
    IN  (IF first_kf.keys = {}
         THEN <<Defect("Missing 'first_keyframe' in video-first pipeline", "", "")>>
         ELSE Opt("id" \notin first_kf.keys, Defect("first_keyframe: missing 'id'", "", ""))
              \o Opt("prompt" \notin first_kf.keys,
                     Defect("first_keyframe: missing 'prompt'", "", ""))
              \o Opt("output" \notin first_kf.keys,
                     Defect("first_keyframe: missing 'output'", "", ""))
              \o RefDefects(p, first_kf, "first_keyframe"))
        \o (IF scenes = <<>>
            THEN <<Defect("Missing 'scenes' in video-first pipeline", "", "")>>
            ELSE Flatten([k \in DOMAIN scenes |-> SceneDefects(k - 1)]))

ValidTransitions == {"cut", "continuous", "fade", "dissolve"}

SegmentDefects_all_segments(scene_id, segments, j) ==
    LET segment == segments[j + 1]
        seg_id == Get(segment, "id", "seg-" \o IdxStr(j))
    IN  Opt("id" \notin segment.keys, Defect("segment: missing 'id'", scene_id, IdxStr(j)))
        \o Opt("motion_prompt" \notin segment.keys,
               Defect("segment: missing 'motion_prompt'", scene_id, seg_id))
        \o Opt("output_video" \notin segment.keys,
               Defect("segment: missing 'output_video'", scene_id, seg_id))
        \o Opt("output_keyframe" \notin segment.keys,
               Defect("segment: missing 'output_keyframe'", scene_id, seg_id))

\* the defects of segment j (0-based) of a scene
SegmentDefects(scene_id, segments, j) ==
    LET segment == segments[j + 1]
        seg_id == Get(segment, "id", "seg-" \o IdxStr(j))
    IN  Opt("id" \notin segment.keys, Defect("segment: missing 'id'", scene_id, IdxStr(j)))
        \o Opt("motion_prompt" \notin segment.keys,
               Defect("segment: missing 'motion_prompt'", scene_id, seg_id))
        \o Opt("output_video" \notin segment.keys,
               Defect("segment: missing 'output_video'", scene_id, seg_id))
        \o Opt(j < Len(segments) - 1 /\ "output_keyframe" \notin segment.keys,
               Defect("segment: missing 'output_keyframe'", scene_id, seg_id))

_validate_v3(p) ==
    LET scenes == Get(p, "scenes", <<>>)
        final_video == Get(p, "final_video", NoLeaf)
        SceneDefects(i) ==
            LET scene == scenes[i + 1]
                scene_id == Get(scene, "id", "scene-" \o IdxStr(i))
                first_kf == Get(scene, "first_keyframe", NoLeaf)
                kf_type == Get(first_kf, "type", "generated")
                transition == scene.transition_from_previous
                t_type == IF transition.isdict THEN Get(transition, "type", "None")
                          ELSE transition.type
                segments == Get(scene, "segments", <<>>)
            IN  Opt("id" \notin scene.keys, Defect("Scene: missing 'id'", IdxStr(i), ""))
                \o Opt("output_video" \notin scene.keys,
                       Defect("missing 'output_video'", scene_id, ""))
                \o (IF kf_type = "generated"
                    THEN Opt("prompt" \notin first_kf.keys,
                             Defect("first_keyframe missing 'prompt'", scene_id, ""))
                         \o Opt("output" \notin first_kf.keys,
                                Defect("first_keyframe missing 'output'", scene_id, ""))
                         \o RefDefects(p, first_kf, scene_id)
                    ELSE IF kf_type = "extracted"
                    THEN Opt(i = 0, Defect("first scene cannot have type='extracted'",
                                           scene_id, ""))
                    ELSE <<Defect("invalid keyframe type", scene_id, kf_type)>>)
                \o (IF "transition_from_previous" \in scene.keys
                    THEN IF i = 0
                         THEN <<Defect("first scene should not have transition_from_previous",
                                       scene_id, "")>>
                         ELSE Opt(t_type \notin ValidTransitions,
                                  Defect("invalid transition type", scene_id, t_type))
                    ELSE <<>>)
                \o (IF segments = <<>>
                    THEN <<Defect("missing 'segments'", scene_id, "")>>
                    ELSE Flatten([j \in DOMAIN segments |->
                                    SegmentDefects(scene_id, segments, j - 1)]))
    IN  IF scenes = <<>>
        THEN <<Defect("Missing 'scenes' in v3.0 pipeline", "", "")>>
        ELSE Flatten([k \in DOMAIN scenes |-> SceneDefects(k - 1)])
             \o Opt(final_video.keys # {} /\ "output" \notin final_video.keys,
                    Defect("final_video: missing 'output'", "", ""))

\* the defect list validate prints; it returns whether the list is empty
validate(p, version) ==
    Opt("project_name" \notin p.keys, Defect("Missing 'project_name'", "", ""))
    \o (IF version = "3.0" THEN _validate_v3(p)
        ELSE IF version = "2.0" THEN _validate_video_first(p)
        ELSE _validate_keyframe_first(p))

\* ------------------------------------------------------- documents drawn
SceneIds == <<"S1", "S2", "S3", "S4">>
SegIds == <<"G1", "G2", "G3", "G4", "G5">>

\* a segment with every required key; st = "" leaves the status key out
MkSeg(j, st, okf) ==
    Leaf({"id", "motion_prompt", "output_video"}
            \cup (IF st = "" THEN {} ELSE {"status"})
            \cup (IF okf THEN {"output_keyframe"} ELSE {}),
         SegIds[j], st)

\* a generated first_keyframe with every required key
MkFirstKf(type, st) ==
    [Leaf({"type", "prompt", "output", "status"}, "", st) EXCEPT !.type = type]

\* a v3 scene with every required key; st = "" leaves the stored status out
MkScene(i, st, type, segs) ==
    SceneObj({"id", "output_video", "first_keyframe", "segments"}
                \cup (IF st = "" THEN {} ELSE {"status"}),
             SceneIds[i], st, MkFirstKf(type, "generated"), NoTransition, segs)

\* documents that differ in what version detection reads
DetectDocs ==
    {Doc({"project_name"} \cup (IF v = "" THEN {} ELSE {"version"})
                          \cup (IF fk THEN {"first_keyframe"} ELSE {})
                          \cup (IF sc = <<>> THEN {} ELSE {"scenes"}),
         v, sc, IF fk THEN MkFirstKf("character", "pending") ELSE NoLeaf, NoLeaf) :
       v \in {"", "1.0", "2.0", "3.0"}, fk \in BOOLEAN,
       sc \in SeqsUpTo({SceneObj({"id"}, "S1", "", NoLeaf, NoTransition, <<>>),
                        SceneObj({"id", "segments"}, "S1", "", NoLeaf, NoTransition, <<>>),
                        SceneObj({"id", "segments"}, "S1", "", NoLeaf, NoTransition,
                                 <<MkSeg(1, "pending", FALSE)>>)}, MaxScenes)}

\* v3 documents of one scene that differ in the segment statuses
StatusDocs ==
    {Doc({"project_name", "version", "scenes"}, "3.0",
         <<[MkScene(1, st, "generated", [j \in DOMAIN ss |-> MkSeg(j, ss[j], j < Len(ss))])
              EXCEPT !.keys = IF ss = <<>> /\ nokey THEN @ \ {"segments"} ELSE @]>>,
         NoLeaf, NoLeaf) :
       ss \in SeqsUpTo(Status \cup {""}, MaxSegs), st \in {"", "approved", "failed"},
       nokey \in BOOLEAN}

\* v3 documents that differ in which segments declare output_keyframe
SegmentDocs ==
    {Doc({"project_name", "version", "scenes"}, "3.0",
         [i \in DOMAIN sc |->
            MkScene(i, "", IF i = 1 THEN "generated" ELSE "extracted",
                    [j \in DOMAIN sc[i] |-> MkSeg(j, "pending", sc[i][j])])],
         NoLeaf, NoLeaf) :
       sc \in SeqsUpTo(SeqsUpTo(BOOLEAN, MaxSegs), MaxScenes) \ {<<>>}}

\* v3 documents that differ in what the end of _validate_v3 and its transition
\* check read: no scenes or one or two, a transition on a scene (a mapping
\* with a valid or an invalid type), a final_video block with or without
\* output
DefectDocs ==
    {Doc({"project_name", "version"} \cup (IF sc = <<>> THEN {} ELSE {"scenes"})
                                     \cup (IF fv.keys = {} THEN {} ELSE {"final_video"}),
         "3.0",
         [i \in DOMAIN sc |->
            [MkScene(i, "", "generated", <<MkSeg(1, "pending", FALSE)>>)
               EXCEPT !.keys = IF sc[i] = "" THEN @ ELSE @ \cup {"transition_from_previous"},
                      !.transition_from_previous =
                          IF sc[i] = "" THEN NoTransition
                          ELSE [isdict |-> TRUE, keys |-> {"type"}, type |-> sc[i]]]],
         NoLeaf, fv) :
       sc \in SeqsUpTo({"", "cut", "wipe"}, MaxScenes),
       fv \in {NoLeaf, Leaf({"status"}, "", "pending"), Leaf({"status", "output"}, "", "pending")}}

\* ------------------------------------------- the job client's records
\* a history record: whether it holds the outputs key, status.completed and
\* status.status_str
Rec(outputs, completed, status_str) ==
    [present |-> TRUE, outputs |-> outputs, completed |-> completed,
     status_str |-> status_str]

\* the handle is not in the history
NoRecord == [present |-> FALSE, outputs |-> FALSE, completed |-> FALSE, status_str |-> ""]

NoBackend == [queued |-> FALSE, history |-> NoRecord]

\* a node of a workflow: a mapping with the keys it holds, or another value
\* (a comment string)
Node(kind, ks, class_type, inputs) ==
    [kind |-> kind, keys |-> ks, class_type |-> class_type, inputs |-> inputs]

\* a workflow: a mapping of node ids to nodes (nodes in the order of its
\* items), or a value that is no dict
Workflow(kind, nodes) == [kind |-> kind, nodes |-> nodes]

\* the answer to POST /prompt: its status code, whether the body is JSON, and
\* the keys of the JSON object
Response(status_code, json, ks) == [status_code |-> status_code, json |-> json, keys |-> ks]
NoResponse == Response(0, FALSE, {})

\* execute_workflow: at: where it stands; workflow, validate: its arguments;
\* posts: the POSTs to /prompt so far; response: the answer to the POST;
\* prompt_id: queue_prompt returned a handle; raised: the exception that left
\* execute_workflow
NoSubmit ==
    [at |-> "none", workflow |-> Workflow("dict", <<>>), validate |-> FALSE, posts |-> 0,
     response |-> NoResponse, prompt_id |-> FALSE, raised |-> ""]

\* at: where wait_for_completion stands; t: the time since start_time;
\* last_history_check: the local of that name; in_queue: the last answer of
\* is_prompt_in_queue; result: the record returned; recvs: the stream reads so
\* far (2 for two or more); sleeps: 1 once the wait has slept; race: the first stream read timed out while the
\* history held a terminal record that is no error and the handle was not
\* queued; http_failed: an HTTP request of this wait failed; fell_back: what
\* sent the wait to the polling fallback; ended_at: where the wait stood when
\* it returned or raised; error_seen: before the deadline the stream gave an
\* execution_error message for the handle, or a history request gave a record
\* whose status_str is error; read_timeouts: 1 once a stream read has timed
\* out; periodic: what the last periodic history check gave ("failed" for a
\* request that failed, "outputs" for a record with outputs, else "nothing");
\* failed_on: the stream message on which the wait raised ComfyUIError
NoWait ==
    [at |-> "idle", timeout |-> 0, t |-> 0, last_history_check |-> 0, in_queue |-> FALSE,
     result |-> NoRecord, recvs |-> 0, sleeps |-> 0, race |-> FALSE, http_failed |-> FALSE,
     fell_back |-> "", ended_at |-> "", error_seen |-> FALSE, submit |-> NoSubmit,
     read_timeouts |-> 0, periodic |-> "", failed_on |-> ""]

\* --------------------------------------------------- the video merger
\* a transition of a scene config: None, a mapping with the keys it holds, or
\* a bare string (type holds it); durations are in tenths of a second
NoneTransition == [kind |-> "None", keys |-> {}, type |-> "", duration |-> 0]

Transition(ks, type, duration) ==
    [kind |-> "dict", keys |-> ks, type |-> type, duration |-> duration]

StrTransition(type) == [kind |-> "str", keys |-> {}, type |-> type, duration |-> 0]

\* a scene config; a video is written as the sequence of the scene videos it
\* is made of, in order (the video of the k-th config is <<k>>)
Config(video, transition) == [video |-> video, transition |-> transition]

\* a call of concatenate (transition "", duration 0) or of merge_with_transition
Call(fn, videos, transition, duration, ok) ==
    [fn |-> fn, videos |-> videos, transition |-> transition, duration |-> duration, ok |-> ok]

\* an external program run by the merger: ffprobe on one video (duration: the
\* duration it reported, 0 when it reported none) or ffmpeg on a list of videos
\* (filter concat, fade or xfade; start: fade_out_start or offset; duration:
\* the transition's)
Command(program, filter, videos, start, duration, ok) ==
    [program |-> program, filter |-> filter, videos |-> videos, start |-> start,
     duration |-> duration, ok |-> ok]

\* at: where merge_all_scenes stands; i, current_video: the locals of
\* _merge_with_transitions; calls: the calls of concatenate and
\* merge_with_transition made so far; commands: the external programs run so
\* far; output: the video written to output_path; result: what
\* merge_all_scenes returned; temp_files: the local of that name;
\* merge_outputs: the merge_output of each turn of the fold; scratch: the
\* scratch files that exist
NoMerger ==
    [at |-> "idle", scene_configs |-> <<>>, i |-> 0, current_video |-> <<>>, calls |-> <<>>,
     commands |-> <<>>, output |-> <<>>, result |-> "", temp_files |-> <<>>,
     merge_outputs |-> <<>>, scratch |-> {}]

\* ------------------------------------------------------- the process
NoOut == [cmd |-> "", errors |-> <<>>, statuses |-> <<>>, code |-> 0]

\* an artifact path: its kind and the ids of the scene and the entity it belongs to
Path(kind, a, b) == <<kind, a, b>>
NoPath == Path("None", "", "")

NoUpd == [fn |-> "", a |-> "", b |-> "", status |-> ""]

\* cmd: the command line; arg: the id given to --regenerate; t, i, j: the loop
\* positions (asset section, entity or scene, segment); keyframe_path,
\* prev_scene_end_keyframe: the locals of execute_scene_segments and
\* execute_scenes_v3; upd: the status update under way and cont the place it
\* returns to; ret: the place the stage returns to; original: the collection
\* (coll) regenerate put aside
NoReg ==
    [cmd |-> "", arg |-> "", t |-> 0, i |-> 0, j |-> 0, keyframe_path |-> NoPath,
     prev_scene_end_keyframe |-> NoPath, upd |-> NoUpd, cont |-> "", ret |-> "",
     coll |-> "", original |-> <<>>]

NoLast == [cmd |-> "", done |-> FALSE]

\* PipelineExecutor.__init__: load the document, detect its version
Construct ==
    /\ UNCHANGED <<waitvars, mergevars>>
    /\ pc = "start"
    /\ pipeline' = disk
    /\ pipeline_version' = _detect_version(disk)
    /\ pc' = "ready"
    /\ disk0' = disk
    /\ invoked' = <<>>
    /\ UNCHANGED <<disk, out, files, reg, last, runs>>

\* self.pipeline as validate leaves it: the walks only read it (in, get and
\* subscripts), and nothing is saved
AfterValidate_fills_version(p) == [p EXCEPT !.keys = @ \cup {"version"}]
AfterValidate(p) == p

\* main, --validate: the defects, and exit code 0 iff there is none
CmdValidate ==
    /\ UNCHANGED <<waitvars, mergevars>>
    /\ pc = "ready"
    /\ LET errors == validate(pipeline, pipeline_version)
       IN  out' = [cmd |-> "validate", errors |-> errors, statuses |-> <<>>,
                   code |-> IF errors = <<>> THEN 0 ELSE 1]
    /\ pc' = "exit"
    /\ pipeline' = AfterValidate(pipeline)
    /\ UNCHANGED <<disk, pipeline_version>>
    /\ UNCHANGED runvars

\* main, --status: the derived status of every scene of a v3 document
CmdStatus ==
    /\ UNCHANGED <<waitvars, mergevars>>
    /\ pc = "ready"
    /\ LET scenes == Get(pipeline, "scenes", <<>>)
       IN  out' = [cmd |-> "status", errors |-> <<>>,
                   statuses |-> IF pipeline_version = "3.0"
                                THEN [i \in DOMAIN scenes |-> _compute_scene_status(scenes[i])]
                                ELSE <<>>,
                   code |-> 0]
    /\ pc' = "exit"
    /\ UNCHANGED <<disk, pipeline, pipeline_version>>
    /\ UNCHANGED runvars

\* the operator starts the orchestrator again
NewProcess ==
    /\ UNCHANGED <<waitvars, mergevars>>
    /\ pc = "exit"
    /\ runs < MaxRuns
    /\ runs' = runs + 1
    /\ pc' = "start"
    /\ pipeline' = EmptyDoc
    /\ pipeline_version' = ""
    /\ out' = NoOut
    /\ reg' = NoReg
    /\ invoked' = <<>>
    /\ disk0' = EmptyDoc
    /\ UNCHANGED <<disk, files, last>>

InitDoc ==
    /\ disk \in DetectDocs \cup StatusDocs \cup SegmentDocs \cup DefectDocs
    /\ pipeline = EmptyDoc
    /\ pipeline_version = ""
    /\ pc = "start"
    /\ out = NoOut
    /\ files = {}
    /\ reg = NoReg
    /\ invoked = <<>>
    /\ disk0 = EmptyDoc
    /\ last = NoLast
    /\ runs = 1
    /\ wait = NoWait
    /\ backend = NoBackend
    /\ merger = NoMerger

NextDoc == Construct \/ CmdValidate \/ CmdStatus \/ NewProcess

SpecDoc == InitDoc /\ [][NextDoc]_vars

\* ------------------------------------------------------ status updates
Finished == {"generated", "approved"}

Sections == <<"characters", "backgrounds", "styles">>

\* the position of the first object of a list whose id is id, 0 when there is none
IdxOf(seq, id) ==
    IF \E k \in DOMAIN seq : seq[k].id = id
    THEN CHOOSE k \in DOMAIN seq : seq[k].id = id /\ \A m \in 1..(k - 1) : seq[m].id # id
    ELSE 0

\* obj["status"] = st
WithStatus(obj, st) == [obj EXCEPT !.status = st, !.keys = @ \cup {"status"}]

\* each _update_*_status gives the document it leaves in memory and whether it
\* went on to _save_pipeline
_update_asset_status(p, asset_type, item_id, status) ==
    LET k == IdxOf(p.assets[asset_type], item_id)
    IN  IF asset_type \in p.assets.keys /\ k # 0
        THEN [doc |-> [p EXCEPT !.assets[asset_type][k] = WithStatus(@, status)],
              save |-> TRUE]
        ELSE [doc |-> p, save |-> FALSE]

_update_keyframe_status(p, kf_id, status) ==
    LET k == IdxOf(p.keyframes, kf_id)
    IN  IF k # 0
        THEN [doc |-> [p EXCEPT !.keyframes[k] = WithStatus(@, status)], save |-> TRUE]
        ELSE [doc |-> p, save |-> FALSE]

_update_video_status(p, video_id, status) ==
    LET k == IdxOf(Get(p, "videos", <<>>), video_id)
    IN  IF k # 0
        THEN [doc |-> [p EXCEPT !.videos[k] = WithStatus(@, status)], save |-> TRUE]
        ELSE [doc |-> p, save |-> FALSE]

_update_first_keyframe_status(p, status) ==
    IF "first_keyframe" \in p.keys
    THEN [doc |-> [p EXCEPT !.first_keyframe = WithStatus(@, status)], save |-> TRUE]
    ELSE [doc |-> p, save |-> FALSE]

_update_scene_status(p, scene_id, status) ==
    LET k == IdxOf(Get(p, "scenes", <<>>), scene_id)
    IN  IF k # 0
        THEN [doc |-> [p EXCEPT !.scenes[k] = WithStatus(@, status)], save |-> TRUE]
        ELSE [doc |-> p, save |-> FALSE]

_update_segment_status_unsaved(p, scene_id, segment_id, status) ==
    LET scenes == Get(p, "scenes", <<>>)
        hits == {k \in DOMAIN scenes :
                    /\ scenes[k].id = scene_id
                    /\ IdxOf(Get(scenes[k], "segments", <<>>), segment_id) # 0}
    IN  IF hits # {}
        THEN LET k == CHOOSE k \in hits : \A m \in hits : k <= m
                 j == IdxOf(scenes[k].segments, segment_id)
             IN  [doc |-> [p EXCEPT !.scenes[k].segments[j] = WithStatus(@, status)],
                  save |-> FALSE]
        ELSE [doc |-> p, save |-> FALSE]

_update_segment_status(p, scene_id, segment_id, status) ==
    LET scenes == Get(p, "scenes", <<>>)
        hits == {k \in DOMAIN scenes :
                    /\ scenes[k].id = scene_id
                    /\ IdxOf(Get(scenes[k], "segments", <<>>), segment_id) # 0}
    IN  IF hits # {}
        THEN LET k == CHOOSE k \in hits : \A m \in hits : k <= m
                 j == IdxOf(scenes[k].segments, segment_id)
             IN  [doc |-> [p EXCEPT !.scenes[k].segments[j] = WithStatus(@, status)],
                  save |-> TRUE]
        ELSE [doc |-> p, save |-> FALSE]

_update_scene_keyframe_status(p, scene_id, status) ==
    LET k == IdxOf(Get(p, "scenes", <<>>), scene_id)
    IN  IF k # 0 /\ "first_keyframe" \in p.scenes[k].keys
        THEN [doc |-> [p EXCEPT !.scenes[k].first_keyframe = WithStatus(@, status)],
              save |-> TRUE]
        ELSE [doc |-> p, save |-> FALSE]

_update_final_video_status(p, status) ==
    IF "final_video" \in p.keys
    THEN [doc |-> [p EXCEPT !.final_video = WithStatus(@, status)], save |-> TRUE]
    ELSE [doc |-> p, save |-> FALSE]

\* what _save_pipeline writes: the whole in-memory document
_save_pipeline(p) == p

Upd(fn, a, b, status) == [fn |-> fn, a |-> a, b |-> b, status |-> status]

StatusUpdate(p, u) ==
    CASE u.fn = "asset" -> _update_asset_status(p, u.a, u.b, u.status)
      [] u.fn = "keyframe" -> _update_keyframe_status(p, u.b, u.status)
      [] u.fn = "video" -> _update_video_status(p, u.b, u.status)
      [] u.fn = "first_keyframe" -> _update_first_keyframe_status(p, u.status)
      [] u.fn = "scene" -> _update_scene_status(p, u.b, u.status)
      [] u.fn = "segment" -> _update_segment_status(p, u.a, u.b, u.status)
      [] u.fn = "scene_keyframe" -> _update_scene_keyframe_status(p, u.b, u.status)
      [] u.fn = "final_video" -> _update_final_video_status(p, u.status)

\* the first half of an _update_*_status: the status is set in memory
ApplyUpdate ==
    /\ UNCHANGED <<waitvars, mergevars>>
    /\ pc = "set"
    /\ LET r == StatusUpdate(pipeline, reg.upd)
       IN  /\ pipeline' = r.doc
           /\ pc' = IF r.save THEN "save" ELSE reg.cont
    /\ UNCHANGED <<disk, pipeline_version, out, files, reg, invoked, disk0, last, runs>>

\* the second half: _save_pipeline rewrites pipeline.json
SavePipeline ==
    /\ UNCHANGED <<waitvars, mergevars>>
    /\ pc = "save"
    /\ disk' = _save_pipeline(pipeline)
    /\ pc' = reg.cont
    /\ UNCHANGED <<pipeline, pipeline_version, out, files, reg, invoked, disk0, last, runs>>

\* one external command: what ran, for which entity, from which start frame, and
\* whether it exited 0
Inv(cmd, scene, id, start, ok) ==
    [cmd |-> cmd, scene |-> scene, id |-> id, start |-> start, ok |-> ok]

\* where a stage of independent entities goes after the command of one of them:
\* to the status update, then on with the next entity, whatever the command
\* returned
AfterEntity_stops_on_failure(r, stage, ok) ==
    [r EXCEPT !.i = @ + 1, !.cont = IF ok THEN stage ELSE r.ret]

AfterEntity(r, stage, ok) == [r EXCEPT !.i = @ + 1, !.cont = stage]

\* ------------------------------------------------------------ v1 stages
\* execute_assets: one turn of the loops over characters, backgrounds, styles
execute_assets ==
    /\ UNCHANGED <<waitvars, mergevars>>
    /\ pc = "assets"
    /\ LET items == Get(Get(pipeline, "assets", NoAssets), Sections[reg.t], <<>>)
       IN  IF reg.i > Len(items)
           THEN /\ IF reg.t < Len(Sections)
                   THEN pc' = pc /\ reg' = [reg EXCEPT !.t = @ + 1, !.i = 1]
                   ELSE pc' = reg.ret /\ reg' = reg
                /\ UNCHANGED <<invoked, files>>
           ELSE IF Get(items[reg.i], "status", "None") \in Finished
           THEN /\ reg' = [reg EXCEPT !.i = @ + 1]
                /\ UNCHANGED <<pc, invoked, files>>
           ELSE \E ok \in BOOLEAN :
                /\ invoked' = Append(invoked, Inv("asset", "", items[reg.i].id, NoPath, ok))
                /\ files' = IF ok THEN files \cup {Path("asset", Sections[reg.t], items[reg.i].id)} ELSE files
                /\ reg' = [AfterEntity(reg, "assets", ok) EXCEPT
                             !.upd = Upd("asset", Sections[reg.t], items[reg.i].id,
                                         IF ok THEN "generated" ELSE "failed")]
                /\ pc' = "set"
    /\ UNCHANGED <<disk, pipeline, pipeline_version, out, disk0, last, runs>>

\* execute_keyframes: one turn of the loop
execute_keyframes ==
    /\ UNCHANGED <<waitvars, mergevars>>
    /\ pc = "keyframes"
    /\ LET keyframes == Get(pipeline, "keyframes", <<>>)
       IN  IF reg.i > Len(keyframes)
           THEN pc' = reg.ret /\ UNCHANGED <<reg, invoked, files>>
           ELSE IF Get(keyframes[reg.i], "status", "None") \in Finished
           THEN /\ reg' = [reg EXCEPT !.i = @ + 1]
                /\ UNCHANGED <<pc, invoked, files>>
           ELSE \E ok \in BOOLEAN :
                /\ invoked' = Append(invoked,
                                 Inv("keyframe", "", keyframes[reg.i].id, NoPath, ok))
                /\ files' = IF ok THEN files \cup {Path("keyframe", "", keyframes[reg.i].id)} ELSE files
                /\ reg' = [AfterEntity(reg, "keyframes", ok) EXCEPT
                             !.upd = Upd("keyframe", "", keyframes[reg.i].id,
                                         IF ok THEN "generated" ELSE "failed")]
                /\ pc' = "set"
    /\ UNCHANGED <<disk, pipeline, pipeline_version, out, disk0, last, runs>>

\* execute_videos: one turn of the loop
execute_videos ==
    /\ UNCHANGED <<waitvars, mergevars>>
    /\ pc = "videos"
    /\ LET videos == Get(pipeline, "videos", <<>>)
           video == videos[reg.i]
           start_kf == IdxOf(pipeline.keyframes, video.start_keyframe)
       IN  IF reg.i > Len(videos)
           THEN pc' = reg.ret /\ UNCHANGED <<reg, invoked, files>>
           ELSE IF Get(video, "status", "None") \in Finished
           THEN /\ reg' = [reg EXCEPT !.i = @ + 1]
                /\ UNCHANGED <<pc, invoked, files>>
           ELSE IF start_kf = 0
           THEN /\ reg' = [reg EXCEPT !.i = @ + 1, !.cont = "videos",
                             !.upd = Upd("video", "", video.id, "failed")]
                /\ pc' = "set"
                /\ UNCHANGED <<invoked, files>>
           ELSE \E ok \in BOOLEAN :
                /\ invoked' = Append(invoked,
                                 Inv("video", "", video.id,
                                     Path("keyframe", "", video.start_keyframe), ok))
                /\ files' = IF ok THEN files \cup {Path("video", "", video.id)} ELSE files
                /\ reg' = [AfterEntity(reg, "videos", ok) EXCEPT
                             !.upd = Upd("video", "", video.id,
                                         IF ok THEN "generated" ELSE "failed")]
                /\ pc' = "set"
    /\ UNCHANGED <<disk, pipeline, pipeline_version, out, disk0, last, runs>>

\* ------------------------------------------------------------ v2 stages
\* execute_first_keyframe
execute_first_keyframe ==
    /\ UNCHANGED <<waitvars, mergevars>>
    /\ pc = "first_keyframe"
    /\ LET first_kf == pipeline.first_keyframe
       IN  IF "first_keyframe" \notin pipeline.keys \/ Get(first_kf, "status", "None") \in Finished
           THEN pc' = reg.ret /\ UNCHANGED <<reg, invoked, files>>
           ELSE \E ok \in BOOLEAN :
                /\ invoked' = Append(invoked, Inv("first_keyframe", "", first_kf.id, NoPath, ok))
                /\ files' = IF ok THEN files \cup {Path("first_keyframe", "", "")} ELSE files
                /\ reg' = [reg EXCEPT !.cont = reg.ret,
                             !.upd = Upd("first_keyframe", "", "",
                                         IF ok THEN "generated" ELSE "failed")]
                /\ pc' = "set"
    /\ UNCHANGED <<disk, pipeline, pipeline_version, out, disk0, last, runs>>

\* keyframe_paths of execute_scenes, looked up: the first keyframe's output under
\* its id, and a scene's output_keyframe under the start_keyframe of the next
\* scene, a later entry replacing an earlier one
keyframe_paths(p, start_kf_id) ==
    LET scenes == Get(p, "scenes", <<>>)
        givers == {k \in 1..(Len(scenes) - 1) :
                      /\ "output_keyframe" \in scenes[k].keys
                      /\ Get(scenes[k + 1], "start_keyframe", "") # ""
                      /\ scenes[k + 1].start_keyframe = start_kf_id}
    IN  IF givers # {}
        THEN Path("output_keyframe", scenes[CHOOSE k \in givers : \A m \in givers : m <= k].id, "")
        ELSE IF "first_keyframe" \in p.keys /\ p.first_keyframe.id = start_kf_id
        THEN Path("first_keyframe", "", "")
        ELSE NoPath

\* execute_scenes (v2): one turn of the loop
execute_scenes ==
    /\ UNCHANGED <<waitvars, mergevars>>
    /\ pc = "scenes_v2"
    /\ LET scenes == Get(pipeline, "scenes", <<>>)
           scene == scenes[reg.i]
           start_frame_path == keyframe_paths(pipeline, Get(scene, "start_keyframe", "None"))
       IN  IF reg.i > Len(scenes)
           THEN pc' = reg.ret /\ UNCHANGED <<reg, invoked, files>>
           ELSE IF Get(scene, "status", "None") \in Finished
           THEN /\ reg' = [reg EXCEPT !.i = @ + 1]
                /\ UNCHANGED <<pc, invoked, files>>
           ELSE IF start_frame_path = NoPath \/ start_frame_path \notin files
           THEN /\ reg' = [reg EXCEPT !.cont = reg.ret,
                             !.upd = Upd("scene", "", scene.id, "failed")]
                /\ pc' = "set"
                /\ UNCHANGED <<invoked, files>>
           ELSE \E ok, extracted \in BOOLEAN :
                /\ invoked' = Append(invoked, Inv("scene", "", scene.id, start_frame_path, ok))
                /\ ~ok => ~extracted
                /\ files' = files
                      \cup (IF ok THEN {Path("video", "", scene.id)} ELSE {})
                      \cup (IF ok /\ extracted /\ "output_keyframe" \in scene.keys
                            THEN {Path("output_keyframe", scene.id, "")} ELSE {})
                /\ reg' = IF ok
                          THEN [reg EXCEPT !.i = @ + 1, !.cont = "scenes_v2",
                                  !.upd = Upd("scene", "", scene.id, "generated")]
                          ELSE [reg EXCEPT !.cont = reg.ret,
                                  !.upd = Upd("scene", "", scene.id, "failed")]
                /\ pc' = "set"
    /\ UNCHANGED <<disk, pipeline, pipeline_version, out, disk0, last, runs>>

\* ------------------------------------------------------------ v3 stages
\* execute_scene_keyframes: one turn of the loop
execute_scene_keyframes ==
    /\ UNCHANGED <<waitvars, mergevars>>
    /\ pc = "scene_keyframes"
    /\ LET scenes == Get(pipeline, "scenes", <<>>)
           scene == scenes[reg.i]
           first_kf == Get(scene, "first_keyframe", NoLeaf)
       IN  IF reg.i > Len(scenes)
           THEN pc' = reg.ret /\ UNCHANGED <<reg, invoked, files>>
           ELSE IF \/ Get(first_kf, "type", "generated") # "generated"
                   \/ Get(first_kf, "status", "pending") \in Finished
           THEN /\ reg' = [reg EXCEPT !.i = @ + 1]
                /\ UNCHANGED <<pc, invoked, files>>
           ELSE \E ok \in BOOLEAN :
                /\ invoked' = Append(invoked, Inv("scene_keyframe", scene.id, "", NoPath, ok))
                /\ files' = IF ok THEN files \cup {Path("first_keyframe", scene.id, "")}
                            ELSE files
                /\ reg' = [AfterEntity(reg, "scene_keyframes", ok) EXCEPT
                             !.upd = Upd("scene_keyframe", "", scene.id,
                                         IF ok THEN "generated" ELSE "failed")]
                /\ pc' = "set"
    /\ UNCHANGED <<disk, pipeline, pipeline_version, out, disk0, last, runs>>

\* the path of a segment's output_keyframe
OutputKeyframe(scene, segment) == Path("output_keyframe", scene.id, segment.id)

\* execute_scenes_v3: one turn of the loop over the scenes, up to the call of
\* execute_scene_segments
execute_scenes_v3 ==
    /\ UNCHANGED <<waitvars, mergevars>>
    /\ pc = "scenes_v3"
    /\ LET scenes == Get(pipeline, "scenes", <<>>)
           scene == scenes[reg.i]
           segments == Get(scene, "segments", <<>>)
           first_kf == Get(scene, "first_keyframe", NoLeaf)
           generated == Get(first_kf, "type", "generated") = "generated"
           start_keyframe_path == IF generated THEN Path("first_keyframe", scene.id, "")
                                  ELSE reg.prev_scene_end_keyframe
           next == [reg EXCEPT !.i = @ + 1]
       IN  IF scenes = <<>>
           THEN pc' = reg.ret /\ reg' = reg
           ELSE IF reg.i > Len(scenes)
           THEN pc' = "final_merge" /\ reg' = reg
           ELSE IF _compute_scene_status(scene) \in Finished
           THEN /\ pc' = pc
                /\ reg' = IF segments # <<>>
                             /\ "output_keyframe" \in segments[Len(segments)].keys
                          THEN [next EXCEPT !.prev_scene_end_keyframe =
                                               OutputKeyframe(scene, segments[Len(segments)])]
                          ELSE next
           ELSE IF \/ generated /\ "output" \notin first_kf.keys
                   \/ ~generated /\ reg.prev_scene_end_keyframe = NoPath
                   \/ start_keyframe_path \notin files
           THEN pc' = pc /\ reg' = next
           ELSE /\ pc' = "segments"
                /\ reg' = [reg EXCEPT !.j = 1, !.keyframe_path = start_keyframe_path]
    /\ UNCHANGED <<disk, pipeline, pipeline_version, out, files, invoked, disk0, last, runs>>

\* execute_scene_segments: one turn of the loop, up to the in_progress update
execute_scene_segments ==
    /\ UNCHANGED <<waitvars, mergevars>>
    /\ pc = "segments"
    /\ LET scene == pipeline.scenes[reg.i]
           segments == Get(scene, "segments", <<>>)
           segment == segments[reg.j]
       IN  IF segments = <<>>
           THEN pc' = "scenes_v3" /\ reg' = [reg EXCEPT !.i = @ + 1]
           ELSE IF reg.j > Len(segments)
           THEN pc' = "scene_merge" /\ reg' = reg
           ELSE IF Get(segment, "status", "pending") \in Finished
           THEN /\ pc' = pc
                /\ reg' = [reg EXCEPT !.j = @ + 1,
                             !.keyframe_path = IF "output_keyframe" \in segment.keys
                                               THEN OutputKeyframe(scene, segment) ELSE @]
           ELSE /\ pc' = "set"
                /\ reg' = [reg EXCEPT !.cont = "seg_run",
                             !.upd = Upd("segment", scene.id, segment.id, "in_progress")]
    /\ UNCHANGED <<disk, pipeline, pipeline_version, out, files, invoked, disk0, last, runs>>

\* where execute_scene_segments goes after the command of a segment failed:
\* it returns None, and execute_scenes_v3 goes on with the next scene
AfterSegmentFailure_next_segment(r) == [r EXCEPT !.j = @ + 1, !.cont = "segments"]

AfterSegmentFailure(r) == [r EXCEPT !.i = @ + 1, !.cont = "scenes_v3"]

\* execute_scene_segments: the command of a segment, the extraction of its last
\* frame and the status it is given
SegmentRun ==
    /\ UNCHANGED <<waitvars, mergevars>>
    /\ pc = "seg_run"
    /\ LET scene == pipeline.scenes[reg.i]
           segment == scene.segments[reg.j]
           declared == "output_keyframe" \in segment.keys
       IN  \E ok, extracted \in BOOLEAN :
            /\ extracted => ok /\ declared
            /\ invoked' = Append(invoked,
                                 Inv("segment", scene.id, segment.id, reg.keyframe_path, ok))
            /\ files' = files
                  \cup (IF ok THEN {Path("segment", scene.id, segment.id)} ELSE {})
                  \cup (IF extracted THEN {OutputKeyframe(scene, segment)} ELSE {})
            /\ reg' = IF ok
                      THEN [reg EXCEPT !.j = @ + 1, !.cont = "segments",
                              !.keyframe_path = IF extracted
                                                THEN OutputKeyframe(scene, segment) ELSE @,
                              !.upd = Upd("segment", scene.id, segment.id, "generated")]
                      ELSE [AfterSegmentFailure(reg) EXCEPT
                              !.upd = Upd("segment", scene.id, segment.id, "failed")]
            /\ pc' = "set"
    /\ UNCHANGED <<disk, pipeline, pipeline_version, out, disk0, last, runs>>

\* execute_scenes_v3 after the segments of a scene: _merge_scene_segments for
\* several segments, a copy for one
SceneMerge ==
    /\ UNCHANGED <<waitvars, mergevars>>
    /\ pc = "scene_merge"
    /\ LET scene == pipeline.scenes[reg.i]
           segments == Get(scene, "segments", <<>>)
           video_paths == {j \in DOMAIN segments :
                              Path("segment", scene.id, segments[j].id) \in files}
           scene_video == Path("scene", scene.id, "")
       IN  IF Len(segments) > 1
           THEN IF "output_video" \notin scene.keys \/ video_paths = {}
                THEN UNCHANGED <<invoked, files>>
                ELSE IF Cardinality(video_paths) = 1
                THEN files' = files \cup {scene_video} /\ invoked' = invoked
                ELSE \E ok \in BOOLEAN :
                        /\ invoked' = Append(invoked,
                                             Inv("concatenate", scene.id, "", NoPath, ok))
                        /\ files' = IF ok THEN files \cup {scene_video} ELSE files
           ELSE files' = files \cup {scene_video} /\ invoked' = invoked
    /\ reg' = [reg EXCEPT !.i = @ + 1, !.prev_scene_end_keyframe = reg.keyframe_path]
    /\ pc' = "scenes_v3"
    /\ UNCHANGED <<disk, pipeline, pipeline_version, out, disk0, last, runs>>

\* _is_simple_transition; a transition that is no mapping has no get
_is_simple_transition(scene) ==
    IF "transition_from_previous" \notin scene.keys THEN "simple"
    ELSE IF ~scene.transition_from_previous.isdict THEN "AttributeError"
    ELSE IF Get(scene.transition_from_previous, "type", "cut") \in {"cut", "continuous"}
    THEN "simple"
    ELSE "transition"

\* merge_final_video, with the choice merge_all_scenes makes
merge_final_video ==
    /\ UNCHANGED <<waitvars, mergevars>>
    /\ pc = "final_merge"
    /\ LET scenes == Get(pipeline, "scenes", <<>>)
           scene_configs == {k \in DOMAIN scenes : Path("scene", scenes[k].id, "") \in files}
           first == CHOOSE k \in scene_configs : \A m \in scene_configs : k <= m
           kinds == {_is_simple_transition(scenes[k]) : k \in scene_configs \ {first}}
           final_output == Path("final", "", "")
       IN  IF "final_video" \notin pipeline.keys
           THEN pc' = reg.ret /\ UNCHANGED <<reg, invoked, files, out, last>>
           ELSE IF scene_configs = {}
           THEN /\ reg' = [reg EXCEPT !.cont = reg.ret,
                             !.upd = Upd("final_video", "", "", "failed")]
                /\ pc' = "set"
                /\ UNCHANGED <<invoked, files, out, last>>
           ELSE IF Cardinality(scene_configs) = 1
           THEN /\ files' = files \cup {final_output}
                /\ reg' = [reg EXCEPT !.cont = reg.ret,
                             !.upd = Upd("final_video", "", "", "generated")]
                /\ pc' = "set"
                /\ UNCHANGED <<invoked, out, last>>
           ELSE IF "AttributeError" \in kinds
           THEN /\ pc' = "exit"
                /\ out' = [NoOut EXCEPT !.cmd = reg.cmd, !.code = 1]
                /\ last' = NoLast
                /\ UNCHANGED <<reg, invoked, files>>
           ELSE \E ok \in BOOLEAN :
                /\ invoked' = Append(invoked,
                                 Inv(IF kinds \subseteq {"simple"} THEN "concatenate"
                                     ELSE "_merge_with_transitions", "", "final", NoPath, ok))
                /\ files' = IF ok THEN files \cup {final_output} ELSE files
                /\ reg' = [reg EXCEPT !.cont = reg.ret,
                             !.upd = Upd("final_video", "", "",
                                         IF ok THEN "generated" ELSE "failed")]
                /\ pc' = "set"
                /\ UNCHANGED <<out, last>>
    /\ UNCHANGED <<disk, pipeline, pipeline_version, disk0, runs>>

\* ------------------------------------------------------------ regenerate
\* the collection that holds item_id: the first asset section, else keyframes,
\* else videos, else none
RegenCollection(p, item_id) ==
    LET assets == Get(p, "assets", NoAssets)
        found == {t \in DOMAIN Sections : IdxOf(Get(assets, Sections[t], <<>>), item_id) # 0}
    IN  IF found # {} THEN Sections[CHOOSE t \in found : \A u \in found : t <= u]
        ELSE IF IdxOf(Get(p, "keyframes", <<>>), item_id) # 0 THEN "keyframes"
        ELSE IF IdxOf(Get(p, "videos", <<>>), item_id) # 0 THEN "videos"
        ELSE ""

Collection(p, coll) ==
    IF coll \in {"keyframes", "videos"} THEN p[coll] ELSE p.assets[coll]

WithCollection(p, coll, items) ==
    IF coll \in {"keyframes", "videos"} THEN [p EXCEPT ![coll] = items]
    ELSE [p EXCEPT !.assets[coll] = items]

\* regenerate: find the item and set it to pending
regenerate ==
    /\ UNCHANGED <<waitvars, mergevars>>
    /\ pc = "regenerate"
    /\ LET coll == RegenCollection(pipeline, reg.arg)
       IN  IF coll = ""
           THEN pc' = "end" /\ reg' = reg
           ELSE /\ pc' = "set"
                /\ reg' = [reg EXCEPT !.coll = coll, !.cont = "regen_narrow",
                             !.upd = Upd(IF coll = "keyframes" THEN "keyframe"
                                         ELSE IF coll = "videos" THEN "video" ELSE "asset",
                                         coll, reg.arg, "pending")]
    /\ UNCHANGED <<disk, pipeline, pipeline_version, out, files, invoked, disk0, last, runs>>

\* regenerate: put the collection aside, leave the one item in it, run the stage
RegenNarrow ==
    /\ UNCHANGED <<waitvars, mergevars>>
    /\ pc = "regen_narrow"
    /\ LET items == Collection(pipeline, reg.coll)
       IN  /\ pipeline' = WithCollection(pipeline, reg.coll, <<items[IdxOf(items, reg.arg)]>>)
           /\ reg' = [reg EXCEPT !.original = items, !.t = 1, !.i = 1, !.ret = "regen_restore"]
    /\ pc' = IF reg.coll \in {"keyframes", "videos"} THEN reg.coll ELSE "assets"
    /\ UNCHANGED <<disk, pipeline_version, out, files, invoked, disk0, last, runs>>

\* regenerate: put the collection back; the item is the object the stage updated
RegenRestore ==
    /\ UNCHANGED <<waitvars, mergevars>>
    /\ pc = "regen_restore"
    /\ LET narrowed == Collection(pipeline, reg.coll)
           k == IdxOf(reg.original, reg.arg)
       IN  pipeline' = WithCollection(pipeline, reg.coll,
                                      [reg.original EXCEPT ![k] = narrowed[1]])
    /\ pc' = "end"
    /\ UNCHANGED <<disk, pipeline_version, out, files, reg, invoked, disk0, last, runs>>

\* ------------------------------------------------------------------ main
Stages == {"assets", "keyframes", "videos", "first_keyframe", "scene_keyframes", "scenes"}

\* the stage names main accepts for a detected version
StageAccepted_any(stage, version) == TRUE

StageAccepted(stage, version) ==
    CASE stage = "assets" -> TRUE
      [] stage \in {"keyframes", "videos"} -> version = "1.0"
      [] stage = "first_keyframe" -> version = "2.0"
      [] stage = "scene_keyframes" -> version = "3.0"
      [] stage = "scenes" -> version # "1.0"

\* where a stage starts
StageEntry(stage, version) ==
    IF stage = "scenes" THEN (IF version = "3.0" THEN "scenes_v3" ELSE "scenes_v2")
    ELSE stage

\* every id the operator may name, and one that names nothing
Ids(p) ==
    UNION {AssetIds(p, Sections[t]) : t \in DOMAIN Sections}
    \cup {p.keyframes[k].id : k \in DOMAIN p.keyframes}
    \cup {p.videos[k].id : k \in DOMAIN p.videos}
    \cup {"nothing"}

\* main: --stage NAME, with the version check of each stage
CmdStage ==
    /\ UNCHANGED <<waitvars, mergevars>>
    /\ pc = "ready"
    /\ \E stage \in Stages :
          IF StageAccepted(stage, pipeline_version)
          THEN /\ pc' = StageEntry(stage, pipeline_version)
               /\ reg' = [NoReg EXCEPT !.cmd = stage, !.t = 1, !.i = 1, !.ret = "end"]
               /\ out' = out
          ELSE /\ pc' = "exit"
               /\ reg' = [NoReg EXCEPT !.cmd = stage]
               /\ out' = [NoOut EXCEPT !.cmd = stage, !.code = 1]
    /\ UNCHANGED <<disk, pipeline, pipeline_version, files, invoked, disk0, last, runs>>

\* main: --regenerate ID
CmdRegenerate ==
    /\ UNCHANGED <<waitvars, mergevars>>
    /\ pc = "ready"
    /\ \E id \in Ids(pipeline) :
          reg' = [NoReg EXCEPT !.cmd = "regenerate", !.arg = id, !.ret = "end"]
    /\ pc' = "regenerate"
    /\ UNCHANGED <<disk, pipeline, pipeline_version, out, files, invoked, disk0, last, runs>>

\* the statuses a stage works on, read from a document
StageStatuses(p, stage, version) ==
    LET assets == Get(p, "assets", NoAssets)
        scenes == Get(p, "scenes", <<>>)
        StatusesOf(items) == {Get(items[k], "status", "pending") : k \in DOMAIN items}
    IN  CASE stage = "assets" ->
                UNION {StatusesOf(Get(assets, Sections[t], <<>>)) : t \in DOMAIN Sections}
          [] stage = "keyframes" -> StatusesOf(Get(p, "keyframes", <<>>))
          [] stage = "videos" -> StatusesOf(Get(p, "videos", <<>>))
          [] stage = "first_keyframe" -> {Get(p.first_keyframe, "status", "pending")}
          [] stage = "scene_keyframes" ->
                {Get(scenes[k].first_keyframe, "status", "pending") :
                    k \in {m \in DOMAIN scenes :
                             Get(scenes[m].first_keyframe, "type", "generated") = "generated"}}
          [] stage = "scenes" /\ version = "3.0" ->
                UNION {StatusesOf(Get(scenes[k], "segments", <<>>)) : k \in DOMAIN scenes}
                \cup (IF "final_video" \in p.keys
                      THEN {Get(p.final_video, "status", "pending")} ELSE {})
          [] OTHER -> StatusesOf(scenes)

\* the command returns and the process ends with exit code 0
CommandEnd ==
    /\ UNCHANGED <<waitvars, mergevars>>
    /\ pc = "end"
    /\ pc' = "exit"
    /\ out' = [NoOut EXCEPT !.cmd = reg.cmd, !.code = 0]
    /\ last' = IF reg.cmd \in Stages
               THEN [cmd |-> reg.cmd,
                     done |-> StageStatuses(disk, reg.cmd, pipeline_version) \subseteq Finished]
               ELSE NoLast
    /\ UNCHANGED <<disk, pipeline, pipeline_version, files, reg, invoked, disk0, runs>>

Running == pc \notin {"start", "ready", "exit"}

\* the process is killed in the middle of a command
Kill ==
    /\ UNCHANGED <<waitvars, mergevars>>
    /\ Running
    /\ pc' = "exit"
    /\ out' = [NoOut EXCEPT !.cmd = reg.cmd, !.code = 137]
    /\ last' = NoLast
    /\ UNCHANGED <<disk, pipeline, pipeline_version, files, reg, invoked, disk0, runs>>

\* the review between two runs: the operator marks what was generated approved
ApproveAll(p) ==
    LET Ap(obj) == IF Get(obj, "status", "pending") = "generated"
                   THEN WithStatus(obj, "approved") ELSE obj
        ApSeq(items) == [k \in DOMAIN items |-> Ap(items[k])]
    IN  [p EXCEPT !.assets = [@ EXCEPT !.characters = ApSeq(@), !.backgrounds = ApSeq(@),
                                       !.styles = ApSeq(@)],
                  !.keyframes = ApSeq(@), !.videos = ApSeq(@),
                  !.first_keyframe = Ap(@), !.final_video = Ap(@),
                  !.scenes = [k \in DOMAIN @ |->
                                [Ap(@[k]) EXCEPT !.first_keyframe = Ap(@),
                                                 !.segments = ApSeq(@)]]]

OperatorApprove ==
    /\ UNCHANGED <<waitvars, mergevars>>
    /\ pc = "start"
    /\ disk' = ApproveAll(disk)
    /\ disk' # disk
    /\ last' = NoLast
    /\ UNCHANGED <<pipeline, pipeline_version, pc, out, files, reg, invoked, disk0, runs>>

\* --------------------------------------------------- documents that are run
Asset(id) == Leaf({"prompt", "output", "status"}, id, "pending")

\* a keyframe-first document with assets only
AssetDocs ==
    {[Doc({"project_name", "version", "assets", "keyframes", "videos"}, "1.0", <<>>,
          NoLeaf, NoLeaf)
        EXCEPT !.assets = [keys |-> {"characters", "backgrounds", "styles"},
                           characters |-> <<Asset("c1"), Asset("c2")>>,
                           backgrounds |-> <<Asset("b1")>>,
                           styles |-> <<>>]]}

Keyframe(id) == Leaf({"id", "prompt", "output", "status"}, id, "pending")
Video(id, start) ==
    [Leaf({"id", "prompt", "output", "status", "start_keyframe"}, id, "pending")
       EXCEPT !.start_keyframe = start]

\* keyframe-first documents with keyframes and videos; the last video may name
\* a keyframe that does not exist
KeyframeDocs ==
    {[Doc({"project_name", "version", "assets", "keyframes", "videos"}, "1.0", <<>>,
          NoLeaf, NoLeaf)
        EXCEPT !.keyframes = <<Keyframe("K1"), Keyframe("K2")>>,
               !.videos = <<Video("V1", "K1"), Video("V2", start)>>] :
       start \in {"K2", "KX"}}

\* a video-first document: a first keyframe and two scenes, the second starting
\* from the frame the first one leaves
V2Scene(id, start, okf) ==
    [SceneObj({"id", "motion_prompt", "output_video", "start_keyframe", "status"}
                 \cup (IF okf THEN {"output_keyframe"} ELSE {}),
              id, "pending", NoLeaf, NoTransition, <<>>)
       EXCEPT !.start_keyframe = start]

SceneDocs ==
    {Doc({"project_name", "version", "first_keyframe", "scenes"}, "2.0",
         <<V2Scene("S1", "KF-A", TRUE), V2Scene("S2", "KF-B", FALSE)>>,
         [Leaf({"id", "type", "prompt", "output", "status"}, "KF-A", "pending")
            EXCEPT !.type = "character"],
         NoLeaf)}

\* scene/segment documents: a scene of two segments and a scene of one, the
\* second scene starting from a generated or an extracted keyframe, with or
\* without a final video, before or after the scene keyframes were generated
SegmentedDocs ==
    {Doc({"project_name", "version", "scenes"}
            \cup (IF fv THEN {"final_video"} ELSE {}), "3.0",
         <<[MkScene(1, "", "generated", <<MkSeg(1, "pending", TRUE), MkSeg(2, "pending", okf)>>)
              EXCEPT !.first_keyframe.status = kf],
           [MkScene(2, "", type, <<MkSeg(1, "pending", FALSE)>>)
              EXCEPT !.first_keyframe =
                        IF type = "generated" THEN [@ EXCEPT !.status = kf]
                        ELSE [Leaf({"type"}, "", "") EXCEPT !.type = type]]>>,
         NoLeaf,
         IF fv THEN Leaf({"output", "status"}, "", "pending") ELSE NoLeaf) :
       okf \in BOOLEAN, type \in {"generated", "extracted"}, fv \in BOOLEAN,
       kf \in {"pending", "generated"}}

\* scene/segment documents with a final video whose second scene declares a
\* transition from the first: a mapping with a type, or a bare name
TransitionDocs ==
    {Doc({"project_name", "version", "scenes", "final_video"}, "3.0",
         <<MkScene(1, "", "generated", <<MkSeg(1, "pending", TRUE)>>),
           [MkScene(2, "", "generated", <<MkSeg(1, "pending", FALSE)>>)
              EXCEPT !.keys = @ \cup {"transition_from_previous"},
                     !.transition_from_previous = tr]>>,
         NoLeaf,
         Leaf({"output", "status"}, "", "pending")) :
       tr \in {[isdict |-> TRUE, keys |-> {"type"}, type |-> "cut"],
               [isdict |-> TRUE, keys |-> {"type"}, type |-> "fade"],
               [isdict |-> FALSE, keys |-> {}, type |-> "cut"]}}

\* a scene/segment document of three scenes of one segment each: the first
\* two start from generated keyframes, the third from the frame its predecessor
\* leaves
ExtractedThirdDocs ==
    {Doc({"project_name", "version", "scenes"}, "3.0",
         <<MkScene(1, "", "generated", <<MkSeg(1, "pending", TRUE)>>),
           MkScene(2, "", "generated", <<MkSeg(1, "pending", TRUE)>>),
           [MkScene(3, "", "extracted", <<MkSeg(1, "pending", FALSE)>>)
              EXCEPT !.first_keyframe = [Leaf({"type"}, "", "") EXCEPT !.type = "extracted"]]>>,
         NoLeaf, NoLeaf)}

\* the artifacts a document's generated scene keyframes and keyframes stand for
KeyframeFiles(p) ==
    {Path("first_keyframe", p.scenes[k].id, "") :
        k \in {m \in DOMAIN p.scenes :
                 /\ "first_keyframe" \in p.scenes[m].keys
                 /\ p.scenes[m].first_keyframe.type = "generated"
                 /\ p.scenes[m].first_keyframe.status = "generated"}}
    \cup {Path("keyframe", "", p.keyframes[k].id) :
            k \in {m \in DOMAIN p.keyframes : Get(p.keyframes[m], "status", "pending") \in Finished}}

Init ==
    /\ disk \in AssetDocs \cup KeyframeDocs \cup SceneDocs \cup SegmentedDocs
                \cup TransitionDocs \cup ExtractedThirdDocs
    /\ pipeline = EmptyDoc
    /\ pipeline_version = ""
    /\ pc = "start"
    /\ out = NoOut
    /\ files = KeyframeFiles(disk)
    /\ reg = NoReg
    /\ invoked = <<>>
    /\ disk0 = EmptyDoc
    /\ last = NoLast
    /\ runs = 1
    /\ wait = NoWait
    /\ backend = NoBackend
    /\ merger = NoMerger

Next ==
    \/ Construct
    \/ NewProcess
    \/ CmdStage
    \/ CmdRegenerate
    \/ execute_assets
    \/ execute_keyframes
    \/ execute_videos
    \/ execute_first_keyframe
    \/ execute_scenes
    \/ execute_scene_keyframes
    \/ execute_scenes_v3
    \/ execute_scene_segments
    \/ SegmentRun
    \/ SceneMerge
    \/ merge_final_video
    \/ regenerate
    \/ RegenNarrow
    \/ RegenRestore
    \/ ApplyUpdate
    \/ SavePipeline
    \/ CommandEnd
    \/ Kill
    \/ OperatorApprove

Spec == Init /\ [][Next]_vars

\* ================================================ wait_for_completion
\* Times are in half seconds.  A stream read that times out takes
\* poll_interval; a message arrives after 0 or 2; an HTTP request takes 0 or 1.
history_check_interval == 6
poll_interval == 4

HistoryShapes ==
    {NoRecord, Rec(FALSE, FALSE, ""), Rec(TRUE, TRUE, "success"), Rec(FALSE, TRUE, "success"),
     Rec(TRUE, FALSE, "error"), Rec(FALSE, FALSE, "error")}

\* a record the backend does not change any more
Terminal(rec) == rec.present /\ (rec.completed \/ rec.outputs \/ rec.status_str = "error")

\* what a stream read gives
StreamEvents ==
    {"timeout", "complete_own", "complete_other", "executing_node", "progress",
     "error_own", "error_other", "empty", "closed"}

HttpTimes == {0, 1}

\* the backend moves on: the handle leaves the queue, a record appears or
\* becomes terminal
BackendStep ==
    /\ wait.at \notin {"idle", "completed", "failed", "timed_out", "transport_error"}
    /\ \E q \in {backend.queued, FALSE}, h \in HistoryShapes :
          /\ Terminal(backend.history) => h = backend.history
          /\ backend.history.present => h.present
          /\ backend' = [queued |-> q, history |-> h]
          /\ backend' # backend
    /\ UNCHANGED wait
    /\ UNCHANGED <<procvars, mergevars>>

\* wait_for_completion is called: start_time is taken
WaitCall ==
    /\ wait.at = "idle"
    /\ wait' = [wait EXCEPT !.at = "connect", !.timeout = WaitTimeout]
    /\ UNCHANGED backend
    /\ UNCHANGED <<procvars, mergevars>>

\* the handler of WebSocketException and OSError: the wait goes on in the polling
\* loop, with the start_time it has (d: the time the failing call took)
FallBack_restarts(w, d, cause) == [w EXCEPT !.t = 0, !.at = "poll", !.fell_back = cause]

FallBack(w, d, cause) == [w EXCEPT !.t = @ + d, !.at = "poll", !.fell_back = cause]

\* where the wait goes when its deadline check in the streaming loop finds the
\* deadline passed: TimeoutError is raised, and the handler of the stream
\* errors lets it through
StreamDeadline_fallback == "poll"

StreamDeadline_keeps_waiting == "loop"

StreamDeadline == "timed_out"

\* the wait has got the record rec from a history request that took d
Seen(w, rec, d) ==
    [w EXCEPT !.error_seen =
        @ \/ (rec.present /\ rec.status_str = "error" /\ w.t + d <= w.timeout)]

\* ws.connect: the connection opens at once or late, or raises: a
\* WebSocketException or OSError leads to the polling fallback, a TimeoutError of
\* the socket is let through like the deadline's
ConnectOutcomes == {"opened", "error", "TimeoutError"}

WaitConnect ==
    /\ wait.at = "connect"
    /\ \E d \in {0, history_check_interval}, outcome \in ConnectOutcomes :
          wait' = CASE outcome = "opened" -> [wait EXCEPT !.t = @ + d, !.at = "loop"]
                    [] outcome = "error" ->
                         FallBack(wait, d, "connect")
                    [] OTHER ->
                         [wait EXCEPT !.t = @ + d, !.at = "timed_out", !.ended_at = "connect"]
    /\ UNCHANGED backend
    /\ UNCHANGED <<procvars, mergevars>>

\* elapsed - last_history_check >= history_check_interval
HistoryDue_after_read_timeout(w) ==
    w.t - w.last_history_check >= history_check_interval /\ w.read_timeouts > 0

HistoryDue(w) == w.t - w.last_history_check >= history_check_interval

\* the top of the streaming loop: the deadline, then whether a history check is due
WaitLoop ==
    /\ wait.at = "loop"
    /\ wait' = IF wait.t > wait.timeout
               THEN [wait EXCEPT !.at = StreamDeadline, !.ended_at = "loop"]
               ELSE IF HistoryDue(wait)
               THEN [wait EXCEPT !.last_history_check = wait.t, !.at = "periodic"]
               ELSE [wait EXCEPT !.at = "recv"]
    /\ UNCHANGED backend
    /\ UNCHANGED <<procvars, mergevars>>

\* the periodic history check; a failure of the request is ignored
WaitPeriodic ==
    /\ wait.at = "periodic"
    /\ \E d \in HttpTimes, answered \in BOOLEAN :
          wait' = [(IF answered THEN Seen(wait, backend.history, d) ELSE wait)
                     EXCEPT !.t = @ + d,
                     !.periodic = IF ~answered THEN "failed"
                                  ELSE IF backend.history.present /\ backend.history.outputs
                                  THEN "outputs" ELSE "nothing",
                     !.at = IF answered /\ backend.history.present /\ backend.history.outputs
                            THEN "final" ELSE "recv"]
    /\ UNCHANGED backend
    /\ UNCHANGED <<procvars, mergevars>>

\* the time a stream read that gives a message takes: less than poll_interval
RecvTimes == {0, 1, 2}

\* what the loop does with a message of the stream
OnMessage_ignores_error(event) == IF event = "complete_own" THEN "break" ELSE "continue"

OnMessage(event) ==
    CASE event = "complete_own" -> "break"
      [] event \in {"error_own", "error_other"} -> "ComfyUIError"
      [] OTHER -> "continue"

\* ws.recv
WaitRecv ==
    /\ wait.at = "recv"
    /\ \E event \in StreamEvents, d \in RecvTimes :
          LET first == wait.recvs = 0
              racing == /\ first /\ event = "timeout"
                        /\ ~backend.queued
                        /\ Terminal(backend.history)
                        /\ backend.history.status_str # "error"
              w == [wait EXCEPT !.recvs = IF @ = 0 THEN 1 ELSE 2, !.race = @ \/ racing,
                      !.error_seen = @ \/ (event = "error_own" /\ wait.t + d <= wait.timeout)]
          IN  wait' =
                CASE event = "timeout" -> [w EXCEPT !.t = @ + poll_interval, !.at = "rt_queue",
                                             !.read_timeouts = 1]
                  [] event = "closed" ->
                       FallBack(w, d, "recv")
                  [] OTHER ->
                       [w EXCEPT !.t = @ + d,
                          !.ended_at = IF OnMessage(event) = "ComfyUIError" THEN "recv" ELSE @,
                          !.failed_on = IF OnMessage(event) = "ComfyUIError" THEN event ELSE @,
                          !.at = CASE OnMessage(event) = "break" -> "final"
                                   [] OnMessage(event) = "ComfyUIError" -> "failed"
                                   [] OTHER -> "loop"]
    /\ UNCHANGED backend
    /\ UNCHANGED <<procvars, mergevars>>

\* is_prompt_in_queue: a request that fails counts as not queued
is_prompt_in_queue(answered, b) == answered /\ b.queued

\* after a read timeout: the queue is asked
WaitTimeoutQueue ==
    /\ wait.at = "rt_queue"
    /\ \E d \in HttpTimes, answered \in BOOLEAN :
          LET in_queue == is_prompt_in_queue(answered, backend)
          IN  wait' = [wait EXCEPT !.t = @ + d, !.in_queue = in_queue,
                         !.at = IF in_queue THEN "rt_last" ELSE "rt_first"]
    /\ UNCHANGED backend
    /\ UNCHANGED <<procvars, mergevars>>

\* the handle is not queued: a record for it ends the wait, else the history is
\* asked again after a sleep
HistoryHit_never(rec) == FALSE

HistoryHit(rec) == rec.present

\* after a read timeout, not queued: the three history requests, 0.5 s and
\* 1.5 s apart; a request that fails raises an OSError
WaitTimeoutHistory ==
    /\ wait.at \in {"rt_first", "rt_second", "rt_third"}
    /\ \E d \in HttpTimes, answered \in BOOLEAN :
          wait' =
            IF ~answered
            THEN [FallBack(wait, d, "history") EXCEPT !.http_failed = TRUE]
            ELSE IF HistoryHit(backend.history)
            THEN [Seen(wait, backend.history, d) EXCEPT !.t = @ + d, !.at = "final"]
            ELSE CASE wait.at = "rt_first" ->
                        [wait EXCEPT !.t = @ + d + 1, !.sleeps = 1, !.at = "rt_second"]
                   [] wait.at = "rt_second" ->
                        [wait EXCEPT !.t = @ + d + 3, !.sleeps = 1, !.at = "rt_third"]
                   [] OTHER -> [wait EXCEPT !.t = @ + d, !.at = "rt_last"]
    /\ UNCHANGED backend
    /\ UNCHANGED <<procvars, mergevars>>

\* after a read timeout, queued or not: a record that is completed or has
\* outputs ends the wait
WaitTimeoutLast ==
    /\ wait.at = "rt_last"
    /\ \E d \in HttpTimes, answered \in BOOLEAN :
          LET rec == backend.history
          IN  wait' =
                IF ~answered
                THEN [FallBack(wait, d, "history") EXCEPT !.http_failed = TRUE]
                ELSE [Seen(wait, rec, d) EXCEPT !.t = @ + d,
                        !.at = IF rec.present /\ (rec.completed \/ rec.outputs)
                               THEN "final" ELSE "loop"]
    /\ UNCHANGED backend
    /\ UNCHANGED <<procvars, mergevars>>

\* the polling fallback: the deadline, then the queue
WaitPoll ==
    /\ wait.at = "poll"
    /\ \E d \in HttpTimes, answered \in BOOLEAN :
          wait' =
            IF wait.t > wait.timeout
            THEN [wait EXCEPT !.at = "timed_out", !.ended_at = "poll"]
            ELSE IF is_prompt_in_queue(answered, backend)
            THEN [wait EXCEPT !.t = @ + d + poll_interval, !.in_queue = TRUE, !.sleeps = 1]
            ELSE [wait EXCEPT !.t = @ + d + 2, !.in_queue = FALSE, !.sleeps = 1,
                    !.at = "poll_history"]
    /\ UNCHANGED backend
    /\ UNCHANGED <<procvars, mergevars>>

\* the polling fallback, not queued: the history; a request that fails is not
\* caught
WaitPollHistory ==
    /\ wait.at = "poll_history"
    /\ \E d \in HttpTimes, answered \in BOOLEAN :
          LET rec == backend.history
          IN  wait' =
                IF ~answered
                THEN [wait EXCEPT !.t = @ + d, !.at = "transport_error", !.http_failed = TRUE,
                        !.ended_at = "poll_history"]
                ELSE IF rec.present
                THEN [Seen(wait, rec, d) EXCEPT !.t = @ + d,
                        !.ended_at = IF rec.status_str = "error" THEN "poll_history" ELSE @,
                        !.at = IF rec.status_str = "error" THEN "failed" ELSE "final"]
                ELSE [wait EXCEPT !.t = @ + d + poll_interval, !.at = "poll"]
    /\ UNCHANGED backend
    /\ UNCHANGED <<procvars, mergevars>>

\* wait_for_completion after the loops: the record fetched last is returned
\* unless it is missing or its status is error
FinalOutcome_ignores_status(rec) == IF ~rec.present THEN "failed" ELSE "completed"
FinalOutcome(rec) ==
    IF ~rec.present THEN "failed"
    ELSE IF rec.status_str = "error" THEN "failed"
    ELSE "completed"

\* the end of wait_for_completion: the record is fetched and returned
WaitFinal ==
    /\ wait.at = "final"
    /\ \E d \in HttpTimes, answered \in BOOLEAN :
          LET rec == backend.history
          IN  wait' =
                IF ~answered
                THEN [wait EXCEPT !.t = @ + d, !.at = "transport_error", !.http_failed = TRUE,
                        !.ended_at = "final"]
                ELSE IF FinalOutcome(rec) = "failed"
                THEN [Seen(wait, rec, d) EXCEPT !.t = @ + d, !.at = "failed", !.ended_at = "final"]
                ELSE [wait EXCEPT !.t = @ + d, !.at = "completed", !.result = rec,
                        !.ended_at = "final"]
    /\ UNCHANGED backend
    /\ UNCHANGED <<procvars, mergevars>>

InitWait ==
    /\ disk = EmptyDoc
    /\ pipeline = EmptyDoc
    /\ pipeline_version = ""
    /\ pc = "start"
    /\ out = NoOut
    /\ files = {}
    /\ reg = NoReg
    /\ invoked = <<>>
    /\ disk0 = EmptyDoc
    /\ last = NoLast
    /\ runs = 1
    /\ wait = NoWait
    /\ backend \in [queued : BOOLEAN, history : HistoryShapes]
    /\ merger = NoMerger

NextWait ==
    \/ WaitCall
    \/ WaitConnect
    \/ WaitLoop
    \/ WaitPeriodic
    \/ WaitRecv
    \/ WaitTimeoutQueue
    \/ WaitTimeoutHistory
    \/ WaitTimeoutLast
    \/ WaitPoll
    \/ WaitPollHistory
    \/ WaitFinal
    \/ BackendStep

SpecWait == InitWait /\ [][NextWait]_vars

\* the steps of wait_for_completion itself
WaitSteps ==
    \/ WaitCall
    \/ WaitConnect
    \/ WaitLoop
    \/ WaitPeriodic
    \/ WaitRecv
    \/ WaitTimeoutQueue
    \/ WaitTimeoutHistory
    \/ WaitTimeoutLast
    \/ WaitPoll
    \/ WaitPollHistory
    \/ WaitFinal

\* the call runs on (every call it makes returns or raises), and the clock
\* advances: the stream reads do not all take no time
SpecWaitFair ==
    /\ InitWait
    /\ [][NextWait]_vars
    /\ WF_vars(WaitSteps)
    /\ SF_vars(WaitRecv /\ wait'.t > wait.t)

\* ==================================================== execute_workflow
\* object_info: the node types the backend knows, with their required inputs
available_nodes == {"KSampler", "LoadImage"}
required_inputs(class_type) ==
    IF class_type = "KSampler" THEN {"model", "seed"} ELSE {"image"}

\* the errors of one node: none for an entry that is no dict, a missing
\* class_type, an unknown class_type, else one per missing required input
NodeErrors(node) ==
    IF node.kind # "dict" THEN <<>>
    ELSE IF "class_type" \notin node.keys THEN <<"missing 'class_type'">>
    ELSE IF node.class_type \notin available_nodes THEN <<"Unknown class_type">>
    ELSE Flatten([k \in 1..2 |->
            LET name == IF k = 1 THEN "model" ELSE IF node.class_type = "KSampler" THEN "seed"
                                                   ELSE "image"
            IN  Opt(name \in required_inputs(node.class_type)
                       /\ name \notin Get(node, "inputs", {}),
                    "Missing required input")])

\* validate_workflow; fetched: get_object_info returned
validate_workflow(workflow, fetched) ==
    IF workflow.kind # "dict" THEN <<"Workflow must be a dictionary">>
    ELSE IF workflow.nodes = <<>> THEN <<"Workflow is empty">>
    ELSE IF ~fetched THEN <<"Could not fetch node info">>
    ELSE Flatten([k \in DOMAIN workflow.nodes |-> NodeErrors(workflow.nodes[k])])

GoodNode == Node("dict", {"class_type", "inputs"}, "LoadImage", {"image"})

Workflows ==
    {Workflow("list", <<>>), Workflow("dict", <<>>),
     Workflow("dict", <<GoodNode>>),
     Workflow("dict", <<Node("str", {}, "", {}), GoodNode>>),
     Workflow("dict", <<GoodNode, Node("dict", {"inputs"}, "", {"image"})>>),
     Workflow("dict", <<Node("dict", {"class_type"}, "Bogus", {})>>),
     Workflow("dict", <<GoodNode, Node("dict", {"class_type", "inputs"}, "KSampler", {"seed"})>>)}

\* what POST /prompt gives: an exception of requests, or a response
Responses ==
    {Response(200, TRUE, {"prompt_id", "number"}), Response(200, TRUE, {"error", "node_errors"}),
     Response(400, TRUE, {"error", "node_errors"}), Response(200, TRUE, {"error", "prompt_id"}),
     Response(500, TRUE, {}), Response(200, TRUE, {}), Response(502, FALSE, {})}

\* queue_prompt on the answer to its POST: the exception it raises, "" when
\* it returns result["prompt_id"]
Submitted_any_200(response) == IF response.status_code # 200 THEN "ComfyUIError" ELSE ""
Submitted(response) ==
    IF ~response.json THEN "JSONDecodeError"
    ELSE IF "error" \in response.keys THEN "ComfyUIError"
    ELSE IF response.status_code # 200 THEN "ComfyUIError"
    ELSE IF "prompt_id" \notin response.keys THEN "KeyError"
    ELSE ""

\* execute_workflow up to its call of queue_prompt
execute_workflow ==
    /\ wait.submit.at = "idle"
    /\ \E available \in BOOLEAN :
          wait' = [wait EXCEPT !.submit.at = IF available THEN "queue_prompt" ELSE "raised",
                               !.submit.raised = IF available THEN "" ELSE "ConnectionError"]
    /\ UNCHANGED backend
    /\ UNCHANGED <<procvars, mergevars>>

\* queue_prompt: the local validation, the POST and the answer; a task the
\* backend accepted is in its queue
queue_prompt ==
    /\ wait.submit.at = "queue_prompt"
    /\ \E fetched \in BOOLEAN :
          LET errors == validate_workflow(wait.submit.workflow, fetched)
          IN  IF wait.submit.validate /\ errors # <<>>
              THEN /\ wait' = [wait EXCEPT !.submit.at = "raised",
                                           !.submit.raised = "WorkflowValidationError"]
                   /\ UNCHANGED backend
              ELSE \/ /\ wait' = [wait EXCEPT !.submit.at = "raised", !.submit.posts = 1,
                                              !.submit.raised = "RequestException"]
                      /\ UNCHANGED backend
                   \/ \E response \in Responses :
                         /\ wait' = [wait EXCEPT
                                       !.submit.posts = 1,
                                       !.submit.response = response,
                                       !.submit.raised = Submitted(response),
                                       !.submit.prompt_id = Submitted(response) = "",
                                       !.submit.at = IF Submitted(response) = "" THEN "queued"
                                                     ELSE "raised"]
                         /\ backend' = [backend EXCEPT
                                          !.queued = response.status_code = 200
                                                        /\ "error" \notin response.keys
                                                        /\ "prompt_id" \in response.keys]
    /\ UNCHANGED <<procvars, mergevars>>

\* execute_workflow calls wait_for_completion with the handle
execute_workflow_wait ==
    /\ wait.submit.at = "queued"
    /\ WaitCall

InitSubmit ==
    /\ disk = EmptyDoc
    /\ pipeline = EmptyDoc
    /\ pipeline_version = ""
    /\ pc = "start"
    /\ out = NoOut
    /\ files = {}
    /\ reg = NoReg
    /\ invoked = <<>>
    /\ disk0 = EmptyDoc
    /\ last = NoLast
    /\ runs = 1
    /\ \E workflow \in Workflows, flag \in BOOLEAN :
          wait = [NoWait EXCEPT !.submit.at = "idle", !.submit.workflow = workflow,
                                !.submit.validate = flag]
    /\ backend = NoBackend
    /\ merger = NoMerger

NextSubmit ==
    \/ execute_workflow
    \/ queue_prompt
    \/ execute_workflow_wait
    \/ WaitConnect
    \/ WaitLoop
    \/ WaitPeriodic
    \/ WaitRecv
    \/ WaitTimeoutQueue
    \/ WaitTimeoutHistory
    \/ WaitTimeoutLast
    \/ WaitPoll
    \/ WaitPollHistory
    \/ WaitFinal
    \/ BackendStep

SpecSubmit == InitSubmit /\ [][NextSubmit]_vars

\* ==================================================== merge_all_scenes
\* transition.get("duration", 0.5)
default_duration == 5

TransitionValues ==
    {NoneTransition, Transition({}, "", 0), Transition({"type"}, "cut", 0),
     Transition({"type"}, "continuous", 0), Transition({"type", "duration"}, "fade", 10),
     Transition({"type"}, "dissolve", 0), Transition({"type"}, "wipe", 0),
     StrTransition("cut")}

\* the lists of scene configs: the k-th holds the k-th scene video
ConfigLists ==
    UNION {{[k \in 1..n |-> Config(<<k>>, trs[k])] : trs \in [1..n -> TransitionValues]}
           : n \in 0..MaxConfigs}

\* _is_simple_transition on the value of a config's transition; a string has
\* no get
SimpleTransition(transition) ==
    IF transition.kind = "None" THEN "True"
    ELSE IF transition.kind = "str" THEN "AttributeError"
    ELSE IF Get(transition, "type", "cut") \in {"cut", "continuous"} THEN "True"
    ELSE "False"

\* all(...) over scene_configs[1:], which stops at the first transition that is
\* not simple
all_simple_with_first(scene_configs) ==
    LET odd == {k \in 1..Len(scene_configs) :
                   SimpleTransition(scene_configs[k].transition) # "True"}
    IN  IF odd = {} THEN "True"
        ELSE SimpleTransition(scene_configs[CHOOSE k \in odd : \A m \in odd : k <= m].transition)

all_simple(scene_configs) ==
    LET odd == {k \in 2..Len(scene_configs) :
                   SimpleTransition(scene_configs[k].transition) # "True"}
    IN  IF odd = {} THEN "True"
        ELSE SimpleTransition(scene_configs[CHOOSE k \in odd : \A m \in odd : k <= m].transition)

\* the durations get_video_duration returns, in tenths of a second: 0.0 when
\* ffprobe failed, timed out or printed no number
Durations == {0, 5, 30}

\* what a method of the merger did: the value it returned, the calls made
\* (itself included) and the external programs run
Done(ret, calls, commands) == [ret |-> ret, calls |-> calls, commands |-> commands]

\* max(0, duration1 - duration)
Max0_unclamped(x) == x
Max0(x) == IF x > 0 THEN x ELSE 0

\* concatenate: nothing for no video, a copy for one, else one ffmpeg run with
\* the concat demuxer; ok is the outcome of the copy or of the run
concatenate(video_paths, ok) ==
    IF Len(video_paths) = 0 THEN Done(FALSE, <<Call("concatenate", video_paths, "", 0, FALSE)>>, <<>>)
    ELSE IF Len(video_paths) = 1 THEN Done(ok, <<Call("concatenate", video_paths, "", 0, ok)>>, <<>>)
    ELSE Done(ok, <<Call("concatenate", video_paths, "", 0, ok)>>,
              <<Command("ffmpeg", "concat", video_paths, 0, 0, ok)>>)

\* if duration1 <= 0: return False
ProbeFailed_never(duration1) == FALSE
ProbeFailed(duration1) == duration1 <= 0

\* _apply_fade_transition: duration1 is what get_video_duration(video1)
\* returned, ok the outcome of the ffmpeg run
_apply_fade_transition(video1, video2, duration, duration1, ok) ==
    LET probe == Command("ffprobe", "", <<video1>>, 0, duration1, duration1 > 0)
        ret == ~ProbeFailed(duration1) /\ ok
    IN  Done(ret, <<Call("_apply_fade_transition", <<video1, video2>>, "fade", duration, ret)>>,
             IF ProbeFailed(duration1) THEN <<probe>>
             ELSE <<probe, Command("ffmpeg", "fade", <<video1, video2>>,
                                   Max0(duration1 - duration), duration, ok)>>)

\* _apply_xfade_transition
_apply_xfade_transition(video1, video2, duration, duration1, ok) ==
    LET probe == Command("ffprobe", "", <<video1>>, 0, duration1, duration1 > 0)
        ret == ~ProbeFailed(duration1) /\ ok
    IN  Done(ret, <<Call("_apply_xfade_transition", <<video1, video2>>, "dissolve", duration, ret)>>,
             IF ProbeFailed(duration1) THEN <<probe>>
             ELSE <<probe, Command("ffmpeg", "xfade", <<video1, video2>>,
                                   Max0(duration1 - duration), duration, ok)>>)

\* merge_with_transition: cut, continuous and an unknown type go to
\* concatenate, fade and dissolve to their filters
merge_with_transition(video1, video2, transition, duration, duration1, ok) ==
    LET inner == CASE transition = "fade" ->
                        _apply_fade_transition(video1, video2, duration, duration1, ok)
                   [] transition = "dissolve" ->
                        _apply_xfade_transition(video1, video2, duration, duration1, ok)
                   [] OTHER -> concatenate(<<video1, video2>>, ok)
    IN  Done(inner.ret,
             <<Call("merge_with_transition", <<video1, video2>>, transition, duration, inner.ret)>>
                \o inner.calls,
             inner.commands)

\* merge_all_scenes: nothing to merge, a copy of the only video, one
\* concatenate, or the start of _merge_with_transitions
merge_all_scenes ==
    /\ merger.at = "idle"
    /\ LET scene_configs == merger.scene_configs
           video_paths == [k \in 1..Len(scene_configs) |-> scene_configs[k].video]
       IN  IF Len(scene_configs) = 0
           THEN merger' = [merger EXCEPT !.at = "done", !.result = "False"]
           ELSE IF Len(scene_configs) = 1
           THEN \E ok \in BOOLEAN :
                   merger' = [merger EXCEPT !.at = "done",
                                !.output = IF ok THEN scene_configs[1].video ELSE @,
                                !.result = IF ok THEN "True" ELSE "False"]
           ELSE IF all_simple(scene_configs) = "AttributeError"
           THEN merger' = [merger EXCEPT !.at = "done", !.result = "AttributeError"]
           ELSE IF all_simple(scene_configs) = "True"
           THEN \E ok \in BOOLEAN :
                   LET did == concatenate(video_paths, ok)
                   IN  merger' = [merger EXCEPT !.at = "done",
                                    !.calls = @ \o did.calls,
                                    !.commands = @ \o did.commands,
                                    !.output = IF did.ret THEN Flatten(video_paths) ELSE @,
                                    !.result = IF did.ret THEN "True" ELSE "False"]
           ELSE merger' = [merger EXCEPT !.at = "fold", !.i = 1,
                             !.current_video = scene_configs[1].video]
    /\ UNCHANGED <<procvars, waitvars>>

\* the scratch file NamedTemporaryFile creates in turn i, and output_path
TempFile(i) == <<"tmp", i>>
output_path == <<"output_path", 0>>

\* the finally clause of _merge_with_transitions: every file of temp_files is
\* unlinked, on return and on an exception
Unlinked_on_success_only(scratch, temp_files, success) ==
    IF success THEN scratch \ {temp_files[k] : k \in DOMAIN temp_files} ELSE scratch

Unlinked(scratch, temp_files, success) ==
    scratch \ {temp_files[k] : k \in DOMAIN temp_files}

\* _merge_with_transitions: one turn of its loop, with the finally clause when
\* the turn is the last
_merge_with_transitions ==
    /\ merger.at = "fold"
    /\ LET scene_configs == merger.scene_configs
           i == merger.i
           next_video == scene_configs[i + 1].video
           transition == scene_configs[i + 1].transition
           t_type == IF transition.kind = "None" THEN "cut" ELSE Get(transition, "type", "cut")
           t_duration == IF transition.kind = "None" THEN 0
                         ELSE Get(transition, "duration", default_duration)
           is_last == i = Len(scene_configs) - 1
           merge_output == IF is_last THEN output_path ELSE TempFile(i)
           temp_files == IF is_last THEN merger.temp_files
                         ELSE Append(merger.temp_files, merge_output)
           created == IF is_last THEN merger.scratch ELSE merger.scratch \cup {merge_output}
       IN  IF transition.kind = "str"
           THEN merger' = [merger EXCEPT !.at = "done", !.result = "AttributeError",
                             !.scratch = Unlinked(@, merger.temp_files, FALSE)]
           ELSE \E duration1 \in Durations, ok \in BOOLEAN :
                   LET did == merge_with_transition(merger.current_video, next_video,
                                                    t_type, t_duration, duration1, ok)
                       success == did.ret
                   IN
                   merger' =
                     [merger EXCEPT
                        !.calls = @ \o did.calls,
                        !.commands = @ \o did.commands,
                        !.temp_files = temp_files,
                        !.merge_outputs = Append(@, merge_output),
                        !.scratch = IF success /\ ~is_last THEN created
                                    ELSE Unlinked(created, temp_files, success),
                        !.current_video = IF success THEN @ \o next_video ELSE @,
                        !.output = IF success /\ is_last THEN merger.current_video \o next_video
                                   ELSE @,
                        !.i = IF success /\ ~is_last THEN i + 1 ELSE @,
                        !.at = IF success /\ ~is_last THEN "fold" ELSE "done",
                        !.result = IF ~success THEN "False"
                                   ELSE IF is_last THEN "True" ELSE @]
    /\ UNCHANGED <<procvars, waitvars>>

InitMerge ==
    /\ disk = EmptyDoc
    /\ pipeline = EmptyDoc
    /\ pipeline_version = ""
    /\ pc = "start"
    /\ out = NoOut
    /\ files = {}
    /\ reg = NoReg
    /\ invoked = <<>>
    /\ disk0 = EmptyDoc
    /\ last = NoLast
    /\ runs = 1
    /\ wait = NoWait
    /\ backend = NoBackend
    /\ merger \in {[NoMerger EXCEPT !.scene_configs = cfgs] : cfgs \in ConfigLists}

NextMerge == merge_all_scenes \/ _merge_with_transitions

SpecMerge == InitMerge /\ [][NextMerge]_vars

\* ================================================================ claims
\* what the claims read of a document
HasSegments(p) == \E i \in DOMAIN Get(p, "scenes", <<>>) : "segments" \in p.scenes[i].keys
HasFirstKeyframe(p) == "first_keyframe" \in p.keys
VersionField(p) == IF "version" \in p.keys THEN p.version ELSE ""
SegStatuses(scene) ==
    [j \in DOMAIN Get(scene, "segments", <<>>) |-> Get(scene.segments[j], "status", "pending")]
Constructed == pc # "start"
StatusShown == pc = "exit" /\ out.cmd = "status" /\ pipeline_version = "3.0"
Validated == pc = "exit" /\ out.cmd = "validate"

\* the three rules of C7 for the derived status r of a scene with segment statuses st
SceneStatusRules(r, st) ==
    /\ r = "approved" <=> \A j \in DOMAIN st : st[j] = "approved"
    /\ r = "failed" <=> \E j \in DOMAIN st : st[j] = "failed"
    /\ r = "in_progress" <=> /\ \E j \in DOMAIN st : st[j] = "in_progress"
                             /\ ~ \E j \in DOMAIN st : st[j] = "failed"

\* C7 as stated: for every list of segment statuses, the empty list included,
\* the derived status of a scene is approved iff every segment is approved,
\* failed iff some segment is failed, in_progress iff some segment is
\* in_progress and none is failed.
C7_AsStated ==
    StatusShown =>
        \A i \in DOMAIN out.statuses :
            SceneStatusRules(out.statuses[i], SegStatuses(pipeline.scenes[i]))

\* C7 amended: the three rules hold for every non-empty list of segment
\* statuses; for a scene with no segments the derived status is the scene's
\* stored status, pending when it stores none.
C7_DerivedSceneStatus ==
    StatusShown =>
        \A i \in DOMAIN out.statuses :
            LET scene == pipeline.scenes[i]
                st == SegStatuses(scene)
            IN  IF st = <<>>
                THEN out.statuses[i] = (IF "status" \in scene.keys THEN scene.status
                                        ELSE "pending")
                ELSE SceneStatusRules(out.statuses[i], st)

\* a failed segment beside an approved one and one in progress: the scene is failed
C7_Witness ==
    /\ StatusShown
    /\ \E i \in DOMAIN out.statuses :
          LET st == SegStatuses(pipeline.scenes[i])
          IN  /\ \E j \in DOMAIN st : st[j] = "failed"
              /\ \E j \in DOMAIN st : st[j] = "approved"
              /\ \E j \in DOMAIN st : st[j] = "in_progress"
              /\ out.statuses[i] = "failed"

\* C8 as stated: a document with a segments key in a scene is v3 whatever its
\* version field; one with first_keyframe and no segments is v2; every other
\* document is v1.
C8_AsStated ==
    Constructed =>
        pipeline_version = (IF HasSegments(pipeline) THEN "3.0"
                            ELSE IF HasFirstKeyframe(pipeline) THEN "2.0"
                            ELSE "1.0")

\* C8 amended: a document with a segments key in a scene is v3 whatever its
\* version field; one with first_keyframe and no segments is v2 unless its
\* version field is "3.0", and then it is v3; every other document is v3 when
\* its version field is "3.0", v2 when it is "2.0", and v1 otherwise.
C8_VersionByContent ==
    Constructed =>
        /\ HasSegments(pipeline) => pipeline_version = "3.0"
        /\ HasFirstKeyframe(pipeline) /\ ~ HasSegments(pipeline) =>
              pipeline_version = (IF VersionField(pipeline) = "3.0" THEN "3.0" ELSE "2.0")
        /\ ~ HasFirstKeyframe(pipeline) /\ ~ HasSegments(pipeline) =>
              pipeline_version = (IF VersionField(pipeline) \in {"2.0", "3.0"}
                                  THEN VersionField(pipeline) ELSE "1.0")

\* a document whose version field says 1.0 and that holds segments is v3
C8_Witness ==
    /\ Constructed
    /\ VersionField(pipeline) = "1.0"
    /\ HasSegments(pipeline)
    /\ pipeline_version = "3.0"

\* C9 as stated: an explicit version field is the detected version; segments
\* (v3) and then first_keyframe (v2) are consulted only when there is no
\* version field; v1 results only when none of the three applies.
C9_AsStated ==
    Constructed =>
        pipeline_version = (IF "version" \in pipeline.keys THEN pipeline.version
                            ELSE IF HasSegments(pipeline) THEN "3.0"
                            ELSE IF HasFirstKeyframe(pipeline) THEN "2.0"
                            ELSE "1.0")

\* C9 amended: a version field of "3.0" gives v3; a version field of "2.0"
\* gives v2 unless a scene holds segments (then v3); with any other version
\* field, or none, segments give v3, else first_keyframe gives v2, else v1.
\* The detected version is never below the version field, and v1 results only
\* when the field is neither "2.0" nor "3.0" and neither marker is present.
C9_VersionPrecedence ==
    Constructed =>
        /\ VersionField(pipeline) = "3.0" => pipeline_version = "3.0"
        /\ VersionField(pipeline) = "2.0" =>
              pipeline_version = (IF HasSegments(pipeline) THEN "3.0" ELSE "2.0")
        /\ VersionField(pipeline) \notin {"2.0", "3.0"} =>
              pipeline_version = (IF HasSegments(pipeline) THEN "3.0"
                                  ELSE IF HasFirstKeyframe(pipeline) THEN "2.0"
                                  ELSE "1.0")
        /\ pipeline_version = "1.0" <=>
              /\ VersionField(pipeline) \notin {"2.0", "3.0"}
              /\ ~ HasSegments(pipeline)
              /\ ~ HasFirstKeyframe(pipeline)

\* a version field of 3.0 on a document with first_keyframe and no segments: v3
C9_Witness ==
    /\ Constructed
    /\ VersionField(pipeline) = "3.0"
    /\ HasFirstKeyframe(pipeline)
    /\ ~ HasSegments(pipeline)
    /\ pipeline_version = "3.0"

\* the number of output_keyframe defects reported for segment j of scene i
OkfDefects(i, j) ==
    Cardinality({k \in DOMAIN out.errors :
        out.errors[k] = Defect("segment: missing 'output_keyframe'",
                               pipeline.scenes[i].id, pipeline.scenes[i].segments[j].id)})

\* C10: validate on a v3 document reports a defect for each segment that is not
\* the last of its scene and omits output_keyframe, and no output_keyframe
\* defect for the last segment of a scene (nor for a segment that declares it).
C10_SegmentValidation ==
    Validated /\ pipeline_version = "3.0" =>
        \A i \in DOMAIN pipeline.scenes :
            \A j \in DOMAIN pipeline.scenes[i].segments :
                LET segs == pipeline.scenes[i].segments
                IN  OkfDefects(i, j) =
                        (IF j < Len(segs) /\ "output_keyframe" \notin segs[j].keys
                         THEN 1 ELSE 0)

\* a scene of three segments where the first and the last omit output_keyframe:
\* the first is reported, the last is not
C10_Witness ==
    /\ Validated
    /\ pipeline_version = "3.0"
    /\ \E i \in DOMAIN pipeline.scenes :
          LET segs == pipeline.scenes[i].segments
          IN  /\ Len(segs) >= 2
              /\ "output_keyframe" \notin segs[1].keys
              /\ "output_keyframe" \notin segs[Len(segs)].keys
              /\ OkfDefects(i, 1) = 1
              /\ OkfDefects(i, Len(segs)) = 0

\* ------------------------------------------------ claims about stage runs
\* the stored status of every entity of a document, under the entity's place
Entities(p) ==
    LET assets == Get(p, "assets", NoAssets)
        scenes == Get(p, "scenes", <<>>)
        St(obj) == Get(obj, "status", "pending")
        Of(kind, a, items) ==
            {[e |-> <<kind, a, items[k].id>>, status |-> St(items[k])] : k \in DOMAIN items}
    IN  UNION {Of("asset", Sections[t], Get(assets, Sections[t], <<>>)) : t \in DOMAIN Sections}
        \cup Of("keyframe", "", Get(p, "keyframes", <<>>))
        \cup Of("video", "", Get(p, "videos", <<>>))
        \cup (IF "first_keyframe" \in p.keys
              THEN {[e |-> <<"first_keyframe", "", "">>, status |-> St(p.first_keyframe)]}
              ELSE {})
        \cup (IF "final_video" \in p.keys
              THEN {[e |-> <<"final_video", "", "">>, status |-> St(p.final_video)]}
              ELSE {})
        \cup Of("scene", "", scenes)
        \cup UNION {Of("segment", scenes[k].id, Get(scenes[k], "segments", <<>>)) :
                      k \in DOMAIN scenes}
        \cup {[e |-> <<"scene_keyframe", "", scenes[k].id>>,
               status |-> St(scenes[k].first_keyframe)] :
                 k \in {m \in DOMAIN scenes : "first_keyframe" \in scenes[m].keys}}

\* a document with every status taken out
StripStatus(p) ==
    LET S(obj) == [obj EXCEPT !.status = "", !.keys = @ \ {"status"}]
        SSeq(items) == [k \in DOMAIN items |-> S(items[k])]
    IN  [p EXCEPT !.assets = [@ EXCEPT !.characters = SSeq(@), !.backgrounds = SSeq(@),
                                       !.styles = SSeq(@)],
                  !.keyframes = SSeq(@), !.videos = SSeq(@),
                  !.first_keyframe = S(@), !.final_video = S(@),
                  !.scenes = [k \in DOMAIN @ |->
                                [S(@[k]) EXCEPT !.first_keyframe = S(@),
                                                !.segments = SSeq(@)]]]

\* the entities whose stored status differs between two documents
StaleEntities(p, q) ==
    {x.e : x \in Entities(p) \ Entities(q)} \cup {x.e : x \in Entities(q) \ Entities(p)}

StageRun == reg.cmd \in Stages /\ pc \notin {"start", "ready"}

\* C1 as stated: when a stage run ended with every entity of the stage generated
\* or approved, the next run of the same stage, with no edit of the plan in
\* between, invokes no external command (no generation, no merge).
C1_IdempotentResume ==
    (StageRun /\ pc # "exit" /\ last.cmd = reg.cmd /\ last.done) => invoked = <<>>

\* C2: in a v3 scenes run, after the generation command of a segment failed no
\* generation command is invoked for another segment of that scene in the same
\* run, and when the run has ended the segment is stored as failed and the
\* derived status of its scene is failed.
C2_SequentialHalt ==
    (StageRun /\ reg.cmd = "scenes" /\ pipeline_version = "3.0") =>
        \A a \in DOMAIN invoked :
            (invoked[a].cmd = "segment" /\ ~invoked[a].ok) =>
                /\ \A b \in DOMAIN invoked :
                      (b > a /\ invoked[b].cmd = "segment") =>
                          invoked[b].scene # invoked[a].scene
                /\ pc = "end" =>
                      LET k == IdxOf(disk.scenes, invoked[a].scene)
                          j == IdxOf(disk.scenes[k].segments, invoked[a].id)
                      IN  /\ disk.scenes[k].segments[j].status = "failed"
                          /\ _compute_scene_status(disk.scenes[k]) = "failed"

\* the run has ended after the first of two segments of a scene failed
C2_Witness ==
    /\ pc = "end" /\ reg.cmd = "scenes" /\ pipeline_version = "3.0"
    /\ \E a \in DOMAIN invoked :
          /\ invoked[a].cmd = "segment" /\ ~invoked[a].ok
          /\ LET segments == disk.scenes[IdxOf(disk.scenes, invoked[a].scene)].segments
             IN  IdxOf(segments, invoked[a].id) < Len(segments)

\* C4 as stated: when regenerate(id) has completed, the persisted document still
\* holds every other entity of the collection of id, with the status it had
\* before the call.
C4_SiblingsPreserved ==
    (pc = "exit" /\ reg.cmd = "regenerate" /\ out.code = 0) =>
        \A x \in Entities(disk0) :
            (x.e[1] \in {"asset", "keyframe", "video"} /\ x.e[3] # reg.arg) =>
                x \in Entities(disk)

Rank(st) ==
    CASE st = "pending" -> 0
      [] st = "in_progress" -> 1
      [] st \in {"generated", "failed"} -> 2
      [] st = "approved" -> 3

\* C6 as stated: but for an operator's regenerate, no step moves the stored
\* status of an entity backward along pending, in_progress, generated or
\* failed, approved.
C6_StatusMonotonic ==
    [][reg.cmd # "regenerate" =>
          \A x \in Entities(disk) : \A y \in Entities(disk') :
              x.e = y.e => Rank(x.status) <= Rank(y.status)]_vars

\* ------------------------------------------------ claims about the wait
\* C3: when the first stream read times out while the history holds a terminal
\* record that is no error and the handle is not queued, and the history
\* requests are answered, wait_for_completion reads the stream no more, does
\* not sleep, raises neither a timeout nor a failure, and returns that record.
C3_CompletionRace ==
    (wait.race /\ ~wait.http_failed) =>
        /\ wait.recvs = 1
        /\ wait.sleeps = 0
        /\ wait.at \in {"rt_queue", "rt_first", "final", "completed"}
        /\ wait.at = "completed" => wait.result = backend.history

\* the record was returned after the first read timed out past the deadline
C3_Witness ==
    /\ wait.race
    /\ wait.at = "completed"
    /\ wait.recvs = 1
    /\ wait.t > wait.timeout

\* the places of the streaming state and of the polling state
StreamingPlaces ==
    {"loop", "periodic", "recv", "rt_queue", "rt_first", "rt_second", "rt_third", "rt_last"}
PollingPlaces == {"poll", "poll_history"}
Late == wait.t > wait.timeout

\* C11 as stated: once the elapsed time exceeds the timeout, a wait in the
\* streaming state stays there until it raises the timeout failure (it neither
\* enters the polling fallback nor ends otherwise), and a wait in the polling
\* state likewise ends with the timeout failure only.
C11_AsStated ==
    [][(Late /\ wait' # wait) =>
          /\ wait.at \in StreamingPlaces => wait'.at \in StreamingPlaces \cup {"timed_out"}
          /\ wait.at \in PollingPlaces => wait'.at \in PollingPlaces \cup {"timed_out"}]_vars

\* C11 amended: the deadline check at the top of the streaming loop, when it
\* finds the elapsed time above the timeout, raises the timeout failure and the
\* polling fallback is not entered; the check at the top of the polling loop
\* does the same; and a wait that raised the timeout failure does nothing more.
C11_DeadlineNotMasked ==
    [][/\ (wait.at \in {"loop", "poll"} /\ Late /\ wait' # wait) => wait'.at = "timed_out"
       /\ wait.at = "timed_out" => wait' = wait]_vars

\* the deadline check of the streaming loop raised the timeout failure
C11_Witness ==
    /\ wait.at = "timed_out"
    /\ wait.ended_at = "loop"
    /\ wait.recvs > 0
    /\ Late

\* C12: after the stream raised an error that is no timeout (on connect or on
\* read) the wait is in the polling loop or has ended, never in the streaming
\* loop again; the time stays measured from the start of the wait (it never
\* goes back, the timeout is not changed) and the polling loop's deadline check
\* raises the timeout failure for it.
C12_FallbackToPolling ==
    /\ [](wait.fell_back # "" =>
            wait.at \in PollingPlaces \cup {"final", "completed", "failed", "timed_out",
                                            "transport_error"})
    /\ [][wait.at # "idle" =>
            /\ wait'.t >= wait.t
            /\ wait'.timeout = wait.timeout
            /\ wait.fell_back # "" => wait'.fell_back = wait.fell_back
            /\ (wait.at = "poll" /\ Late /\ wait' # wait) => wait'.at = "timed_out"]_vars

\* a stream read failed after the wait had begun, the wait polled and slept, and
\* the polling loop raised the timeout failure
C12_Witness ==
    /\ wait.fell_back = "recv"
    /\ wait.at = "timed_out"
    /\ wait.ended_at = "poll"
    /\ wait.sleeps = 1

Outcomes == {"completed", "failed", "timed_out"}

PlainBoundary(tr) == tr.kind = "None" \/ (tr.kind = "dict" /\ "type" \in tr.keys /\ tr.type \in {"cut", "continuous"})
FadingBoundary(tr) == tr.kind = "dict" /\ "type" \in tr.keys /\ tr.type \in {"fade", "dissolve"}

Boundaries == 2..Len(merger.scene_configs)

CallsOf(fn) == SelectSeq(merger.calls, LAMBDA c : c.fn = fn)

\* the pairwise fold, left to right: the m-th call of merge_with_transition
\* joins the merge of the first m videos with the video m + 1, with the type of
\* the config m + 1 (cut for none); a call that fails is the last
IsFold(calls) ==
    /\ Len(calls) >= 1
    /\ \A m \in 1..Len(calls) :
          LET tr == merger.scene_configs[m + 1].transition
          IN  /\ m + 1 <= Len(merger.scene_configs)
              /\ calls[m].videos = << Flatten([k \in 1..m |-> <<k>>]), <<m + 1>> >>
              /\ calls[m].transition = IF tr.kind = "None" \/ "type" \notin tr.keys THEN "cut"
                                       ELSE tr.type
              /\ ~calls[m].ok => m = Len(calls)

\* C15: merge_all_scenes has returned, on two or more configs whose
\* transitions are None or mappings.  If every boundary transition is none, cut
\* or continuous, it made one call of concatenate, over all scene videos in
\* order, and no call of merge_with_transition; if one is fade or dissolve it
\* made no concatenate over all the videos: its calls of merge_with_transition
\* are the pairwise fold from the left.
C15_TransitionShortCircuit ==
    (/\ merger.at = "done"
     /\ Len(merger.scene_configs) >= 2
     /\ \A k \in Boundaries : merger.scene_configs[k].transition.kind # "str")
    =>
       /\ (\A k \in Boundaries : PlainBoundary(merger.scene_configs[k].transition)) =>
             /\ Len(merger.calls) = 1
             /\ merger.calls[1].fn = "concatenate"
             /\ merger.calls[1].videos = [k \in 1..Len(merger.scene_configs) |-> <<k>>]
             /\ merger.result = (IF merger.calls[1].ok THEN "True" ELSE "False")
       /\ (\E k \in Boundaries : FadingBoundary(merger.scene_configs[k].transition)) =>
             /\ IsFold(CallsOf("merge_with_transition"))
             /\ \A n \in 1..Len(merger.calls) :
                   merger.calls[n].fn = "concatenate" => Len(merger.calls[n].videos) = 2
             /\ merger.result = "True" =>
                   Len(CallsOf("merge_with_transition")) = Len(merger.scene_configs) - 1

\* three configs with the transitions none, cut, continuous: one concatenate,
\* which succeeded
C15_Witness ==
    /\ merger.at = "done"
    /\ Len(merger.scene_configs) = 3
    /\ merger.scene_configs[1].transition.kind = "None"
    /\ merger.scene_configs[2].transition.type = "cut"
    /\ merger.scene_configs[3].transition.type = "continuous"
    /\ Len(merger.calls) = 1
    /\ merger.result = "True"
    /\ merger.output = <<1, 2, 3>>

\* the commands of this stage run that generated the first segment of a scene
\* of type extracted whose predecessor's last segment was generated before, in
\* the same run
ExtractedStarts ==
    {n \in DOMAIN invoked :
        LET scenes == Get(pipeline, "scenes", <<>>)
            i == IdxOf(scenes, invoked[n].scene)
        IN  /\ invoked[n].cmd = "segment"
            /\ i >= 2
            /\ Get(Get(scenes[i], "first_keyframe", NoLeaf), "type", "generated") = "extracted"
            /\ invoked[n].id = scenes[i].segments[1].id
            /\ \E m \in 1..(n - 1) :
                  /\ invoked[m].cmd = "segment"
                  /\ invoked[m].ok
                  /\ invoked[m].scene = scenes[i - 1].id
                  /\ invoked[m].id = scenes[i - 1].segments[Len(scenes[i - 1].segments)].id}

\* C16: the start frame given to the first segment of a scene B of type
\* extracted, after scene A before it completed in the same run, is the last
\* frame of the video of A's last segment, and not A's own start keyframe.
C16_ExtractedStartFrame ==
    \A n \in ExtractedStarts :
        LET scenes == pipeline.scenes
            A == scenes[IdxOf(scenes, invoked[n].scene) - 1]
        IN  /\ invoked[n].start = OutputKeyframe(A, A.segments[Len(A.segments)])
            /\ invoked[n].start # Path("first_keyframe", A.id, "")

\* the versions each stage is for
StageVersions(stage) ==
    CASE stage \in {"keyframes", "videos"} -> {"1.0"}
      [] stage = "first_keyframe" -> {"2.0"}
      [] stage = "scene_keyframes" -> {"3.0"}
      [] stage = "scenes" -> {"2.0", "3.0"}
      [] OTHER -> {"1.0", "2.0", "3.0"}

\* C17: a stage named for a document of a version it is not for ends the
\* process with exit code 1, with no external command invoked and the document,
\* persisted and in memory, as it was when the process started; a stage named
\* for a version it is for is entered (it ends with exit code 1 only by the
\* failure of the final merge).
C17_StageVersion ==
    /\ (reg.cmd \in Stages /\ pipeline_version \notin StageVersions(reg.cmd)) =>
          /\ pc = "exit"
          /\ out.code = 1
          /\ invoked = <<>>
          /\ disk = disk0
          /\ pipeline = disk0
    /\ (reg.cmd \in Stages /\ pipeline_version \in StageVersions(reg.cmd)
          /\ pc = "exit" /\ out.code = 1) =>
          reg.cmd = "scenes" /\ pipeline_version = "3.0"

\* the scenes stage was named for a v1 document whose keyframes are pending,
\* and the process has ended
C17_Witness ==
    /\ reg.cmd = "scenes"
    /\ pipeline_version = "1.0"
    /\ pc = "exit"
    /\ Len(Get(disk, "keyframes", <<>>)) > 0
    /\ \A k \in DOMAIN disk.keyframes : Get(disk.keyframes[k], "status", "pending") = "pending"

\* the defects a v3 document has, of the kinds: final_video without output,
\* first scene with a transition, invalid transition type, first scene
\* extracted, no segments, no output_keyframe on a segment that is not the last
V3Defects(p) ==
    LET scenes == Get(p, "scenes", <<>>)
        final_video == Get(p, "final_video", NoLeaf)
        id(i) == Get(scenes[i], "id", "scene-" \o IdxStr(i - 1))
        tr(i) == scenes[i].transition_from_previous
        t_type(i) == IF tr(i).isdict THEN Get(tr(i), "type", "None") ELSE tr(i).type
        segs(i) == Get(scenes[i], "segments", <<>>)
    IN  {Defect("final_video: missing 'output'", "", "") : x \in
            {y \in {1} : final_video.keys # {} /\ "output" \notin final_video.keys}}
        \cup {Defect("first scene should not have transition_from_previous", id(i), "") :
                i \in {k \in DOMAIN scenes : k = 1 /\ "transition_from_previous" \in scenes[k].keys}}
        \cup {Defect("invalid transition type", id(i), t_type(i)) :
                i \in {k \in DOMAIN scenes : /\ "transition_from_previous" \in scenes[k].keys
                                             /\ t_type(k) \notin ValidTransitions}}
        \cup {Defect("first scene cannot have type='extracted'", id(i), "") :
                i \in {k \in DOMAIN scenes :
                         /\ k = 1
                         /\ Get(Get(scenes[k], "first_keyframe", NoLeaf), "type", "generated")
                               = "extracted"}}
        \cup {Defect("missing 'segments'", id(i), "") :
                i \in {k \in DOMAIN scenes : segs(k) = <<>>}}
        \cup UNION {{Defect("segment: missing 'output_keyframe'", id(i),
                            Get(segs(i)[j], "id", "seg-" \o IdxStr(j - 1))) :
                       j \in {m \in DOMAIN segs(i) :
                                m < Len(segs(i)) /\ "output_keyframe" \notin segs(i)[m].keys}}
                    : i \in DOMAIN scenes}

\* C18: the list validate returns for a v3 document holds every defect of
\* these kinds that the document has.
C18_ValidationComplete ==
    (Validated /\ pipeline_version = "3.0") =>
        \A d \in V3Defects(pipeline) : \E k \in DOMAIN out.errors : out.errors[k] = d

\* C19: no video, scene or segment command is invoked with a start frame that
\* does not exist, and a v3 scene left unfinished by a completed scenes run
\* whose generated start keyframe does not exist is failed in the persisted
\* document.
C19_MissingDependency ==
    /\ \A n \in DOMAIN invoked :
          invoked[n].cmd \in {"video", "scene", "segment"} => invoked[n].start \in files
    /\ (pc = "exit" /\ out.code = 0 /\ reg.cmd = "scenes" /\ pipeline_version = "3.0") =>
          \A i \in DOMAIN disk.scenes :
              LET scene == disk.scenes[i]
                  first_kf == Get(scene, "first_keyframe", NoLeaf)
              IN  (/\ _compute_scene_status(scene) \notin Finished
                   /\ Get(first_kf, "type", "generated") = "generated"
                   /\ Path("first_keyframe", scene.id, "") \notin files)
                  => _compute_scene_status(scene) = "failed"

IndependentStages == {"assets", "keyframes", "videos", "scene_keyframes"}

\* the entities of a stage of independent entities, in the order of the run:
\* the command and the names its invocation carries, the stored status, and
\* whether its start keyframe names no keyframe (videos)
StageItems(p, stage) ==
    LET assets == Get(p, "assets", NoAssets)
        keyframes == Get(p, "keyframes", <<>>)
        videos == Get(p, "videos", <<>>)
        scenes == Get(p, "scenes", <<>>)
        Item(cmd, scene, id, obj, dangling) ==
            [cmd |-> cmd, scene |-> scene, id |-> id,
             status |-> Get(obj, "status", "pending"), dangling |-> dangling]
    IN  CASE stage = "assets" ->
               Flatten([t \in DOMAIN Sections |->
                  [k \in DOMAIN Get(assets, Sections[t], <<>>) |->
                     Item("asset", "", assets[Sections[t]][k].id, assets[Sections[t]][k], FALSE)]])
          [] stage = "keyframes" ->
               [k \in DOMAIN keyframes |-> Item("keyframe", "", keyframes[k].id, keyframes[k], FALSE)]
          [] stage = "videos" ->
               [k \in DOMAIN videos |->
                  Item("video", "", videos[k].id, videos[k],
                       IdxOf(keyframes, videos[k].start_keyframe) = 0)]
          [] OTHER ->
               LET gen == SelectSeq([k \in DOMAIN scenes |-> scenes[k]],
                                    LAMBDA sc : Get(Get(sc, "first_keyframe", NoLeaf),
                                                    "type", "generated") = "generated")
               IN  [k \in DOMAIN gen |->
                      Item("scene_keyframe", gen[k].id, "", gen[k].first_keyframe, FALSE)]

RecordsOf(e) ==
    {n \in DOMAIN invoked :
        invoked[n].cmd = e.cmd /\ invoked[n].scene = e.scene /\ invoked[n].id = e.id}

\* C20: at the end of a completed run of the assets, keyframes, videos or
\* scene_keyframes stage, every entity that was not generated or approved at
\* the start had its command invoked once, whatever the commands of the
\* entities before it returned, and is generated if the command exited 0 and
\* failed if not (a video whose start keyframe names no keyframe is failed
\* with no command); an entity that was generated or approved had none.
C20_IndependentContinue ==
    (pc = "exit" /\ out.code = 0 /\ reg.cmd \in IndependentStages
        /\ pipeline_version \in StageVersions(reg.cmd)) =>
        LET before == StageItems(disk0, reg.cmd)
            after == StageItems(disk, reg.cmd)
        IN  /\ Len(after) = Len(before)
            /\ \A k \in DOMAIN before :
                  IF before[k].status \in Finished
                  THEN RecordsOf(before[k]) = {} /\ after[k].status = before[k].status
                  ELSE IF before[k].dangling
                  THEN RecordsOf(before[k]) = {} /\ after[k].status = "failed"
                  ELSE /\ Cardinality(RecordsOf(before[k])) = 1
                       /\ \A n \in RecordsOf(before[k]) :
                             after[k].status = (IF invoked[n].ok THEN "generated" ELSE "failed")

\* a completed keyframes run whose first command failed and whose second
\* command, for the next keyframe, exited 0
C20_Witness ==
    /\ pc = "exit"
    /\ out.code = 0
    /\ reg.cmd = "keyframes"
    /\ Len(invoked) = 2
    /\ ~invoked[1].ok
    /\ invoked[2].ok
    /\ invoked[1].id # invoked[2].id
    /\ StageItems(disk, "keyframes")[1].status = "failed"
    /\ StageItems(disk, "keyframes")[2].status = "generated"

\* C21: the command of a segment that is not the first of its scene, whose
\* predecessor declares output_keyframe, is invoked with the predecessor's
\* output_keyframe as start frame, and that frame exists.
C21_FrameBeforeConsumer ==
    \A n \in DOMAIN invoked :
        invoked[n].cmd = "segment" =>
            LET scenes == Get(pipeline, "scenes", <<>>)
                scene == scenes[IdxOf(scenes, invoked[n].scene)]
                j == IdxOf(scene.segments, invoked[n].id)
            IN  (j >= 2 /\ "output_keyframe" \in scene.segments[j - 1].keys) =>
                   /\ invoked[n].start = OutputKeyframe(scene, scene.segments[j - 1])
                   /\ invoked[n].start \in files

\* the external programs run for the call c of merge_with_transition: those on
\* its pair of videos and the probe of its first video
CommandsOf(c) ==
    SelectSeq(merger.commands, LAMBDA x : x.videos = c.videos \/ x.videos = <<c.videos[1]>>)

\* C22: every call of merge_with_transition with the type cut or continuous
\* made the calls, ran the commands and returned the value of
\* concatenate([video1, video2]); every call with the type fade or dissolve
\* first probed the duration of video1 and, when the probe gave no positive
\* duration, returned False, ran no ffmpeg command and called no concatenate;
\* when it gave one, the filter starts at max(0, duration1 - duration).
C22_MergeWithTransition ==
    \A n \in 1..Len(merger.calls) :
        LET c == merger.calls[n]
            cmds == CommandsOf(c)
        IN  c.fn = "merge_with_transition" =>
              /\ c.transition \in {"cut", "continuous"} =>
                    /\ n < Len(merger.calls)
                    /\ \E ok \in BOOLEAN :
                          LET plain == concatenate(c.videos, ok)
                          IN  /\ <<merger.calls[n + 1]>> = plain.calls
                              /\ cmds = plain.commands
                              /\ c.ok = plain.ret
              /\ c.transition \in {"fade", "dissolve"} =>
                    /\ Len(cmds) >= 1
                    /\ cmds[1].program = "ffprobe"
                    /\ cmds[1].videos = <<c.videos[1]>>
                    /\ n < Len(merger.calls)
                    /\ merger.calls[n + 1].fn # "concatenate"
                    /\ cmds[1].duration <= 0 => Len(cmds) = 1 /\ ~c.ok
                    /\ cmds[1].duration > 0 =>
                          /\ Len(cmds) = 2
                          /\ cmds[2].program = "ffmpeg"
                          /\ cmds[2].filter = (IF c.transition = "fade" THEN "fade" ELSE "xfade")
                          /\ cmds[2].videos = c.videos
                          /\ cmds[2].start = Max0(cmds[1].duration - c.duration)
                          /\ c.ok = cmds[2].ok

\* a cut joined the first two videos, then the probe for a fade found no
\* duration: the merge failed after one concat run and one probe
C22_Witness ==
    /\ merger.at = "done"
    /\ merger.result = "False"
    /\ Len(merger.scene_configs) = 3
    /\ Len(CallsOf("merge_with_transition")) = 2
    /\ CallsOf("merge_with_transition")[1].transition = "cut"
    /\ CallsOf("merge_with_transition")[2].transition = "fade"
    /\ Len(merger.commands) = 2
    /\ merger.commands[1].filter = "concat"
    /\ merger.commands[2].program = "ffprobe"
    /\ merger.commands[2].duration = 0

\* C23: in a process whose document has a defect that validate reports, no
\* generation command has been invoked and the persisted document is the one
\* the process loaded.
C23_RefusedOnInvalidPlan ==
    (Constructed /\ validate(disk0, pipeline_version) # <<>>) =>
        /\ invoked = <<>>
        /\ disk = disk0

\* every scene of the loaded document has the derived status generated or
\* approved
AllScenesFinished ==
    \A k \in DOMAIN Get(pipeline, "scenes", <<>>) :
        _compute_scene_status(pipeline.scenes[k]) \in Finished

\* C24: in a v3 scenes run, the final video has been written, or the status
\* of final_video differs from the one the process loaded, only if every scene
\* has the derived status generated or approved.
C24_FinalAfterAllScenes ==
    (/\ reg.cmd = "scenes"
     /\ pipeline_version = "3.0"
     /\ \/ Path("final", "", "") \in files
        \/ Get(Get(pipeline, "final_video", NoLeaf), "status", "")
              # Get(Get(disk0, "final_video", NoLeaf), "status", ""))
    => AllScenesFinished

\* C25: once queue_prompt has returned or raised: it returned a handle only
\* if the answer to its POST had status 200 and no error key; an answer with
\* an error key made it raise ComfyUIError and return no handle; with
\* validate=True and a workflow that validate_workflow finds a defect in, it
\* raised WorkflowValidationError without a POST; and wait_for_completion is
\* entered only with a handle of an accepted task.
C25_SubmissionRejection ==
    LET sub == wait.submit
    IN  /\ sub.prompt_id =>
              /\ sub.posts = 1
              /\ sub.response.status_code = 200
              /\ "error" \notin sub.response.keys
              /\ sub.raised = ""
        /\ (sub.posts = 1 /\ "error" \in sub.response.keys) =>
              /\ sub.raised = "ComfyUIError"
              /\ ~sub.prompt_id
        /\ (/\ sub.at \in {"raised", "queued"}
            /\ sub.raised # "ConnectionError"
            /\ sub.validate
            /\ validate_workflow(sub.workflow, TRUE) # <<>>) =>
              /\ sub.raised = "WorkflowValidationError"
              /\ sub.posts = 0
              /\ ~sub.prompt_id
        /\ sub.raised = "WorkflowValidationError" => sub.posts = 0
        /\ wait.at # "idle" =>
              /\ sub.prompt_id
              /\ sub.response.status_code = 200
              /\ "error" \notin sub.response.keys

\* the backend answered the POST with status 200 and an error: ComfyUIError, no
\* handle, and the wait was not entered
C25_Witness ==
    /\ wait.submit.at = "raised"
    /\ wait.submit.posts = 1
    /\ wait.submit.response = Response(200, TRUE, {"error", "node_errors"})
    /\ wait.submit.raised = "ComfyUIError"
    /\ ~wait.submit.prompt_id
    /\ wait.at = "idle"

\* C26: a process that has exited, and was not killed, has the exit code 0 only
\* if no command of its run failed (no entity was marked failed for a failed
\* command, no chain was aborted by one), and after --validate only if there
\* is no defect.
C26_ExitCode ==
    (pc = "exit" /\ out.code = 0) =>
        /\ \A n \in DOMAIN invoked : invoked[n].ok
        /\ out.cmd = "validate" => out.errors = <<>>

\* the rules of the derived status on a list of segment statuses
ApprovedRule(st) == \A j \in DOMAIN st : st[j] = "approved"
GeneratedRule(st) == \A j \in DOMAIN st : st[j] \in {"generated", "approved"}
FailedRule(st) == \E j \in DOMAIN st : st[j] = "failed"
InProgressRule(st) == \E j \in DOMAIN st : st[j] = "in_progress"
NoRule(st) == ~ApprovedRule(st) /\ ~GeneratedRule(st) /\ ~FailedRule(st) /\ ~InProgressRule(st)

\* C27 as stated: for every non-empty list of segment statuses the derived
\* status is generated iff every segment is generated or approved, and pending
\* iff none of the four rules applies.
C27_AsStated ==
    StatusShown =>
        \A i \in DOMAIN out.statuses :
            LET st == SegStatuses(pipeline.scenes[i])
            IN  st # <<>> =>
                  /\ out.statuses[i] = "generated" <=> GeneratedRule(st)
                  /\ out.statuses[i] = "pending" <=> NoRule(st)

\* C27 amended: for every non-empty list of segment statuses the derived
\* status is generated iff every segment is generated or approved and not all
\* are approved, and pending iff none of the four rules applies.
C27_GeneratedPending ==
    StatusShown =>
        \A i \in DOMAIN out.statuses :
            LET st == SegStatuses(pipeline.scenes[i])
            IN  st # <<>> =>
                  /\ out.statuses[i] = "generated" <=> (GeneratedRule(st) /\ ~ApprovedRule(st))
                  /\ out.statuses[i] = "pending" <=> NoRule(st)

\* a scene with a generated and an approved segment, and no other, is generated
C27_Witness ==
    /\ StatusShown
    /\ \E i \in DOMAIN out.statuses :
          LET st == SegStatuses(pipeline.scenes[i])
          IN  /\ Len(st) >= 2
              /\ \E j \in DOMAIN st : st[j] = "generated"
              /\ \E j \in DOMAIN st : st[j] = "approved"
              /\ GeneratedRule(st)
              /\ out.statuses[i] = "generated"

\* the wait is in its streaming loop and no stream read has timed out so far
BusyStream ==
    /\ wait.at \in {"loop", "periodic", "recv"}
    /\ wait.fell_back = ""
    /\ wait.read_timeouts = 0

FadeBoundariesReached ==
    {k \in Boundaries :
        /\ merger.scene_configs[k].transition.kind = "dict"
        /\ {"type", "duration"} \subseteq merger.scene_configs[k].transition.keys
        /\ merger.scene_configs[k].transition.type = "fade"
        /\ Len(CallsOf("merge_with_transition")) >= k - 1}

\* C29: at a boundary k whose transition is a fade of declared duration d, the
\* fold called merge_with_transition and _apply_fade_transition on the video
\* accumulated from the scenes 1..k-1 and the video of scene k with the
\* duration d, probed the accumulated video, and, when the probe gave a
\* positive duration, ran the fade filter with the duration d and the
\* fade-out start probed - d, or 0 when d exceeds the probed duration.
C29_FadeOffset ==
    \A k \in FadeBoundariesReached :
        LET d == merger.scene_configs[k].transition.duration
            a == Flatten([m \in 1..(k - 1) |-> <<m>>])
            c == CallsOf("merge_with_transition")[k - 1]
            fades == SelectSeq(merger.calls,
                               LAMBDA x : x.fn = "_apply_fade_transition" /\ x.videos = c.videos)
            cmds == CommandsOf(c)
        IN  /\ c.videos = <<a, <<k>>>>
            /\ c.transition = "fade"
            /\ c.duration = d
            /\ Len(fades) = 1
            /\ fades[1].duration = d
            /\ Len(cmds) >= 1
            /\ cmds[1].program = "ffprobe"
            /\ cmds[1].videos = <<a>>
            /\ cmds[1].duration > 0 =>
                  /\ Len(cmds) = 2
                  /\ cmds[2].filter = "fade"
                  /\ cmds[2].duration = d
                  /\ cmds[2].start >= 0
                  /\ cmds[2].start = (IF d > cmds[1].duration THEN 0 ELSE cmds[1].duration - d)

\* two fades of one second: the first on a video of three seconds starts its
\* fade-out at two seconds, the second on a video probed at half a second
\* starts it at 0
C29_Witness ==
    /\ merger.at = "done"
    /\ merger.result = "True"
    /\ FadeBoundariesReached = {2, 3}
    /\ Len(merger.commands) = 4
    /\ merger.commands[1].duration = 30
    /\ merger.commands[2].start = 20
    /\ merger.commands[3].duration = 5
    /\ merger.commands[4].start = 0
    /\ merger.commands[4].duration = 10

C31_ValidateReadOnly ==
    Validated =>
        /\ pipeline = disk0
        /\ disk = disk0
        /\ invoked = <<>>
        /\ files = {}

\* a v3 document with scenes failed validation and is as it was loaded
C31_Witness ==
    /\ Validated
    /\ out.errors # <<>>
    /\ out.code = 1
    /\ pipeline_version = "3.0"
    /\ Get(pipeline, "scenes", <<>>) # <<>>
    /\ pipeline = disk0
    /\ disk = disk0

\* the stored statuses of the entities of a document other than id, by
\* collection and id
OtherStatuses(p, id) ==
    LET assets == Get(p, "assets", NoAssets)
        Of(coll, items) == {<<coll, items[k].id, Get(items[k], "status", "pending")>> :
                              k \in {m \in DOMAIN items : items[m].id # id}}
    IN  UNION {Of(Sections[t], Get(assets, Sections[t], <<>>)) : t \in DOMAIN Sections}
        \cup Of("keyframes", Get(p, "keyframes", <<>>))
        \cup Of("videos", Get(p, "videos", <<>>))

\* C32: in a --regenerate ID process every command invoked is for the entity
\* ID, and when regenerate has returned every other entity has the status it
\* had when the process started.
C32_RegenerateScoped ==
    reg.cmd = "regenerate" =>
        /\ \A n \in DOMAIN invoked : invoked[n].id = reg.arg
        /\ (pc = "exit" /\ out.code = 0) =>
              OtherStatuses(pipeline, reg.arg) = OtherStatuses(disk0, reg.arg)

\* C33: a wait that ended with ComfyUIError ended so on an execution_error
\* message for its own handle, or on a history record of the handle whose
\* status is error, or because the history held no record of the handle at the
\* end; never on a message about another handle.
C33_OwnJobOnly ==
    wait.at = "failed" =>
        \/ wait.failed_on = "error_own"
        \/ wait.ended_at # "recv" /\ backend.history.present
                                  /\ backend.history.status_str = "error"
        \/ wait.ended_at = "final" /\ ~backend.history.present

\* C34: a v3 scenes run on a document that passes validate and has a
\* final_video, when it has ended without being killed, has ended normally
\* with the status of final_video generated or failed.
C34_ValidatedTransitionsMerge ==
    (/\ pc = "exit"
     /\ out.cmd = "scenes"
     /\ out.code # 137
     /\ pipeline_version = "3.0"
     /\ "final_video" \in disk0.keys
     /\ validate(disk0, pipeline_version) = <<>>)
    =>
       /\ out.code = 0
       /\ Get(pipeline.final_video, "status", "pending") \in {"generated", "failed"}

\* C35 as stated: a stage run never changes the stored status of an entity that
\* was generated or approved when the run started, the final video included.
C35_CompletedLeftAlone ==
    StageRun =>
        \A x \in Entities(disk0) : x.status \in Finished => x \in Entities(disk)

\* the same but for the final video: a stage run never changes the stored
\* status of an asset, keyframe, video, segment or scene keyframe that was
\* generated or approved when the run started
C35_ButFinalVideo ==
    StageRun =>
        \A x \in Entities(disk0) :
            (x.status \in Finished /\ x.e[1] # "final_video") => x \in Entities(disk)

\* C36 as stated: when a v3 scenes run has ended, by itself or interrupted
\* between two steps, every scene whose derived status is generated or approved
\* has its scene video.
C36_GeneratedSceneHasVideo ==
    (pc = "exit" /\ reg.cmd = "scenes" /\ pipeline_version = "3.0") =>
        \A k \in DOMAIN disk.scenes :
            _compute_scene_status(disk.scenes[k]) \in Finished =>
                Path("scene", disk.scenes[k].id, "") \in files

\* the same for the runs that were not interrupted
C36_UninterruptedRuns ==
    (pc = "exit" /\ reg.cmd = "scenes" /\ pipeline_version = "3.0" /\ out.code # 137) =>
        \A k \in DOMAIN disk.scenes :
            _compute_scene_status(disk.scenes[k]) \in Finished =>
                Path("scene", disk.scenes[k].id, "") \in files

\* C37 as stated: merge_final_video sets final_video to generated only when the
\* video of every scene of the plan was there to be merged.
C37_FinalCoversPlan ==
    (pc = "set" /\ reg.upd = Upd("final_video", "", "", "generated")) =>
        \A k \in DOMAIN pipeline.scenes :
            Path("scene", pipeline.scenes[k].id, "") \in files

\* C38 as stated: in a v3 scenes run, a segment of a scene at index i > 0 whose
\* first keyframe is extracted is invoked only when scene i-1 is complete, and
\* with a start frame that comes from scene i-1.
C38_ExtractedFromPredecessor ==
    (reg.cmd = "scenes" /\ pipeline_version = "3.0") =>
        \A n \in DOMAIN invoked :
            invoked[n].cmd = "segment" =>
                LET i == IdxOf(pipeline.scenes, invoked[n].scene)
                IN  (i > 1 /\ pipeline.scenes[i].first_keyframe.type = "extracted") =>
                        /\ _compute_scene_status(pipeline.scenes[i - 1]) \in Finished
                        /\ invoked[n].start[2] = pipeline.scenes[i - 1].id

\* C39: wait_for_completion returns a result only if the history then holds a
\* record for the handle whose status is not error, and that record is the
\* result; when the loops ended and the history holds no record for the handle
\* the call ends with a failure, not with a result.
C39_SuccessMeansRecord ==
    /\ wait.at = "completed" =>
          /\ wait.ended_at = "final"
          /\ backend.history.present
          /\ backend.history.status_str # "error"
          /\ wait.result = backend.history
    /\ (wait.ended_at = "final" /\ ~backend.history.present) =>
          wait.at \in {"failed", "transport_error"}

\* a completion event of the handle ended the loop at the first read while the
\* history held no record, and the call failed
C39_Witness ==
    /\ wait.at = "failed" /\ wait.ended_at = "final"
    /\ ~backend.history.present
    /\ wait.recvs = 1 /\ wait.read_timeouts = 0 /\ wait.fell_back = ""
    /\ wait.failed_on = ""

====
